---- MODULE Spec2Model ----
(***************************************************************************)
(* Priority-based I/O rate limiter of components/file_system               *)
(* (rate_limiter.rs): IORateLimiterStatistics, IOThroughputEstimator,      *)
(* RawIORateLimiter (request_impl, set_ios_per_sec, refill), the           *)
(* IORateLimiter facade and the refill daemon.                             *)
(*                                                                         *)
(* Time is kept relative to the current instant: next_refill_time, a       *)
(* sleeper's wake-up time and the daemon's wake-up time hold the number of *)
(* milliseconds that remain until that instant (0 once it has passed).     *)
(* The code compares instants only with each other, so the differences     *)
(* carry all the information the code reads.                               *)
(***************************************************************************)
EXTENDS Integers, Sequences, FiniteSets, TLC

\* ------------------------------------------------------------------ bounds
MaxThrough == 4     \* ios_through[p] and pending_ios[p] saturate here (usize in the code)
MaxStat == 4        \* cap on the bytes the statistics accumulate between two resets
MaxRefills == 2     \* cap on the number of enabled refills in Spec

\* ------------------------------------------------------- program constants
DEFAULT_REFILL_PERIOD == 30     \* milliseconds
RefillSlack == 1                \* milliseconds, Duration::from_millis(1)
ShortWindow == 5                \* samples per smoothed mean
LongWindow == 200               \* samples per emission after warm-up

\* IOPriority ordinals: High > Medium, and refill stores into [pi - 1].
Low == 0
Medium == 1
High == 2
IOPriority == {Low, Medium, High}

\* IOType ordinals, in declaration order.
Other == 0
ForegroundRead == 1
ForegroundWrite == 2
Flush == 3
Compaction == 4
Replication == 5
LoadBalance == 6
Import == 7
Export == 8
IOType == Other..Export

IOOp == {"Read", "Write"}

\* ------------------------------------------------------------ input sets
Writers == {"w1", "w2"}
Clients == {"c1", "c2"}             \* threads calling the registry
ThisLimiter == "limiter"            \* Arc of the limiter modelled here
OtherLimiter == "other"             \* Arc of some other IORateLimiter
NoLimiter == "None"
Handles == {NoLimiter, ThisLimiter, OtherLimiter}
Setters == {"s1", "s2"}
Rates == {0, 20, 40, 70}          \* bytes per second offered to set_io_rate_limit
ReqBytes == {1, 2}                \* bytes offered to request

Min(a, b) == IF a < b THEN a ELSE b
\* Byte counters are kept up to MaxThrough, which exceeds every epoch budget
\* of the model: the code reads them only in comparisons with a budget.
Saturate(n) == IF n > MaxThrough THEN MaxThrough ELSE n
Max(a, b) == IF a > b THEN a ELSE b

VARIABLES
    ios_through,            \* [IOPriority -> Nat], atomic
    ios_per_epoch,          \* [IOPriority -> Nat], atomic
    next_refill_time,       \* protected: ms until the next scheduled refill
    pending_ios,            \* protected: [IOPriority -> Nat]
    estimated_ios_through,  \* protected: [IOPriority -> estimator]
    mutex,                  \* holder of `protected`, or "free"
    priority_map,           \* [IOType -> IOPriority]
    stats_enabled,          \* IORateLimiter.stats is Some
    stats,                  \* [read_bytes, write_bytes : [IOType -> Nat]]
    shared,                 \* the limiter is behind an Arc (no more &mut self)
    pc,                     \* [Writers -> position in request]
    req,                    \* [Writers -> locals of the request in progress]
    spc,                    \* [Setters -> position in set_ios_per_sec]
    snow,                   \* [Setters -> local `now` of set_ios_per_sec]
    dpc,                    \* position of the thread that refills
    dtimer,                 \* ms until its sleep, or its wait for the lock, ends
    stop,                   \* IORateLimiterDaemon.stop, shared with the thread
    daemon,                 \* the IORateLimiterDaemon handle: "none", "held", "dropped"
    IO_RATE_LIMITER,        \* the process-wide slot: NoLimiter or a limiter
    fetched,                \* [Clients -> what get_io_rate_limiter returned last]
    last_fetch,             \* MetricsTask.last_fetch: [IOType -> IOBytes]
    IO_BYTES_VEC,           \* the exported io_bytes counters: [IOType -> IOBytes]
    flushing,               \* the running on_tick: the IOType it flushes next, and
                            \* what BytesFetcher::fetch has loaded of it so far
    fetcher,                \* MetricsTask.fetcher: "ByRateLimiter", "ByIOSnooper", or
                            \* "none" while no MetricsTask is built
    snooped,                \* the byte counts iosnoop keeps: [IOType -> IOBytes]
    resetting,              \* IORateLimiterStatistics::reset: the stores already done
    refilling               \* refill's locals: [pi, limit, emitted]

limiter_vars == <<ios_through, ios_per_epoch, next_refill_time, pending_ios,
                  estimated_ios_through, mutex>>
facade_vars == <<priority_map, stats_enabled, stats, shared>>
writer_vars == <<pc, req>>
setter_vars == <<spc, snow>>
driver_vars == <<dpc, dtimer, stop, daemon, refilling>>
registry_vars == <<IO_RATE_LIMITER, fetched>>
metrics_vars == <<last_fetch, IO_BYTES_VEC, flushing, fetcher, snooped, resetting>>
prog_vars == <<ios_through, ios_per_epoch, next_refill_time, pending_ios,
               estimated_ios_through, mutex, priority_map, stats_enabled, stats,
               shared, pc, req, spc, snow, dpc, dtimer, stop, daemon,
               IO_RATE_LIMITER, fetched, last_fetch, IO_BYTES_VEC, flushing,
               fetcher, snooped, resetting, refilling>>

\* ------------------------------------------------------------ statistics
IOStatsNew == [read_bytes |-> [t \in IOType |-> 0], write_bytes |-> [t \in IOType |-> 0]]

StatsFetch(s, io_type, io_op) ==
    IF io_op = "Read" THEN s.read_bytes[io_type] ELSE s.write_bytes[io_type]

\* Mutant: the bytes are added to the counters of both operations.
StatsRecord_BothOps(s, io_type, io_op, bytes) ==
    [s EXCEPT !.read_bytes[io_type] = @ + bytes, !.write_bytes[io_type] = @ + bytes]

StatsRecord(s, io_type, io_op, bytes) ==
    IF io_op = "Read"
    THEN [s EXCEPT !.read_bytes[io_type] = @ + bytes]
    ELSE [s EXCEPT !.write_bytes[io_type] = @ + bytes]

\* reset: the store of its loop that follows `done` stores, read_bytes[i]
\* before write_bytes[i] for each i in 0..IOType::COUNT.
StatsReset(s, done) ==
    IF done % 2 = 0
    THEN [s EXCEPT !.read_bytes[done \div 2] = 0]
    ELSE [s EXCEPT !.write_bytes[done \div 2] = 0]

\* ------------------------------------------------------------- estimator
IOThroughputEstimatorNew == [count |-> 0, long_max |-> 0, short_sum |-> 0]

\* count is a u64 that the code reads only as count % 5, count % 200 and
\* count < 200: from 2 x LongWindow on it is kept LongWindow lower, which
\* leaves the three unchanged.
FoldCount(count) == IF count >= 2 * LongWindow THEN count - LongWindow ELSE count

\* Mutant: an estimate is emitted on every ShortWindow-th sample for ever.
ShouldEmit_EveryShortWindow(count) == count % ShortWindow = 0

\* maybe_update_estimation: an estimate is emitted on every LongWindow-th
\* sample, and on every ShortWindow-th one before the first of those.
ShouldEmit(count) ==
    (count % LongWindow = 0) \/ (count < LongWindow /\ count % ShortWindow = 0)

\* Mutant: the maximum survives an emission.
maybe_update_estimation_KeepMax(e, v) ==
    LET count == FoldCount(e.count + 1)
        sum == e.short_sum + v
        smooth == (count % ShortWindow = 0)
        long_max == IF smooth THEN Max(e.long_max, sum \div ShortWindow) ELSE e.long_max
        short_sum == IF smooth THEN 0 ELSE sum
        emit == ShouldEmit(count)
    IN  [est |-> [count |-> count,
                  long_max |-> long_max,
                  short_sum |-> IF emit THEN 0 ELSE short_sum],
         some |-> emit,
         value |-> IF emit THEN long_max ELSE 0]

\* maybe_update_estimation: the estimator after sample v, and the emitted value.
maybe_update_estimation(e, v) ==
    LET count == FoldCount(e.count + 1)
        sum == e.short_sum + v
        smooth == (count % ShortWindow = 0)
        long_max == IF smooth THEN Max(e.long_max, sum \div ShortWindow) ELSE e.long_max
        short_sum == IF smooth THEN 0 ELSE sum
        emit == ShouldEmit(count)
    IN  [est |-> [count |-> count,
                  long_max |-> IF emit THEN 0 ELSE long_max,
                  short_sum |-> IF emit THEN 0 ELSE short_sum],
         some |-> emit,
         value |-> IF emit THEN long_max ELSE 0]

\* (ios_per_sec as f64 * refill_period.as_secs_f64()) as usize; the product is
\* truncated, and for the rates used here the float product truncates to the
\* same integer as the exact one.
calculate_ios_per_refill(ios_per_sec, refill_period) ==
    (ios_per_sec * refill_period) \div 1000

\* --------------------------------------------------------------- initial
\* The locals of request_impl. `now` is an instant that the code only compares
\* with next_refill_time: it is kept as until, the milliseconds from `now` to
\* next_refill_time (0 if there are none, DEFAULT_REFILL_PERIOD if more).
NoRequest == [io_type |-> Other, io_op |-> "Read", bytes |-> 0, priority |-> High,
              cached |-> 0, amount |-> 0, until |-> 0, pending |-> 0, wake |-> 0,
              ret |-> 0]

\* refill's locals before the loop.
NoRefill == [pi |-> High, limit |-> 0, emitted |-> 0]

\* MetricsTask::on_tick about to flush io_type, nothing fetched yet.
Flushing(io_type) == [io_type |-> io_type, read |-> <<>>]

\* IOBytes::default(), the element of MetricsTask::new's last_fetch.
IOBytesDefault == [read |-> 0, write |-> 0]

\* IORateLimiter::new(enable_statistics), with no thread started yet.
ProgNew(enable_statistics) ==
    /\ ios_through = [p \in IOPriority |-> 0]
    /\ ios_per_epoch = [p \in IOPriority |-> 0]
    /\ next_refill_time = DEFAULT_REFILL_PERIOD
    /\ pending_ios = [p \in IOPriority |-> 0]
    /\ estimated_ios_through = [p \in IOPriority |-> IOThroughputEstimatorNew]
    /\ mutex = "free"
    /\ priority_map = [t \in IOType |-> High]
    /\ stats_enabled = enable_statistics
    /\ stats = IOStatsNew
    /\ shared = FALSE
    /\ pc = [w \in Writers |-> "idle"]
    /\ req = [w \in Writers |-> NoRequest]
    /\ spc = [s \in Setters |-> "idle"]
    /\ snow = [s \in Setters |-> 0]
    /\ dpc = "stopped"
    /\ dtimer = 0
    /\ stop = FALSE
    /\ daemon = "none"
    /\ IO_RATE_LIMITER = NoLimiter
    /\ fetched = [c \in Clients |-> NoLimiter]
    /\ last_fetch = [t \in IOType |-> IOBytesDefault]
    /\ IO_BYTES_VEC = [t \in IOType |-> IOBytesDefault]
    /\ flushing = Flushing(Other)
    /\ fetcher = "none"
    /\ snooped = [t \in IOType |-> IOBytesDefault]
    /\ resetting = 0
    /\ refilling = NoRefill

\* Priority maps of the throughput tests: set_io_priority(Compaction, p), and
\* set_io_priority(Compaction, Medium) with set_io_priority(Import, Low).
CompactionAt(io_priority) == [t \in IOType |-> IF t = Compaction THEN io_priority ELSE High]
HybridPriorities ==
    [t \in IOType |-> IF t = Compaction THEN Medium ELSE IF t = Import THEN Low ELSE High]

\* A limiter configured and in use: new(enable_statistics), set_io_priority
\* to get the map priorities, set_io_rate_limit(ios_per_sec), Arc::new, and
\* the driver of its refills: with handle "held" the daemon thread of
\* new_io_rate_limiter_daemon, spawned and about to call refill, with handle
\* "none" the worker's interval task, which has not fired yet.
ProgConfigured(enable_statistics, ios_per_sec, priorities, handle) ==
    /\ ios_through = [p \in IOPriority |-> 0]
    /\ ios_per_epoch = [p \in IOPriority |->
                          calculate_ios_per_refill(ios_per_sec, DEFAULT_REFILL_PERIOD)]
    /\ next_refill_time = DEFAULT_REFILL_PERIOD
    /\ pending_ios = [p \in IOPriority |-> 0]
    /\ estimated_ios_through = [p \in IOPriority |-> IOThroughputEstimatorNew]
    /\ mutex = "free"
    /\ priority_map = priorities
    /\ stats_enabled = enable_statistics
    /\ stats = IOStatsNew
    /\ shared = TRUE
    /\ pc = [w \in Writers |-> "idle"]
    /\ req = [w \in Writers |-> NoRequest]
    /\ spc = [s \in Setters |-> "idle"]
    /\ snow = [s \in Setters |-> 0]
    /\ dpc = IF handle = "none" THEN "stopped" ELSE "sleep"
    /\ dtimer = 0
    /\ stop = FALSE
    /\ daemon = handle
    /\ IO_RATE_LIMITER = NoLimiter
    /\ fetched = [c \in Clients |-> NoLimiter]
    /\ last_fetch = [t \in IOType |-> IOBytesDefault]
    /\ IO_BYTES_VEC = [t \in IOType |-> IOBytesDefault]
    /\ flushing = Flushing(Other)
    /\ fetcher = "none"
    /\ snooped = [t \in IOType |-> IOBytesDefault]
    /\ resetting = 0
    /\ refilling = NoRefill

\* ---------------------------------------------------------------- facade
\* Mutant: set_io_priority overwrites the whole map.
SetIoPriority_All(io_type, io_priority) ==
    /\ ~shared
    /\ priority_map' = [t \in IOType |-> io_priority]
    /\ UNCHANGED <<limiter_vars, stats_enabled, stats, shared, writer_vars,
                   setter_vars, driver_vars, registry_vars, metrics_vars>>

\* IORateLimiter::set_io_priority(&mut self): only while the limiter is not shared.
SetIoPriority(io_type, io_priority) ==
    /\ ~shared
    /\ priority_map' = [priority_map EXCEPT ![io_type] = io_priority]
    /\ UNCHANGED <<limiter_vars, stats_enabled, stats, shared, writer_vars,
                   setter_vars, driver_vars, registry_vars, metrics_vars>>

\* Arc::new(limiter): from here on the limiter is used through &self only.
Share ==
    /\ ~shared
    /\ shared' = TRUE
    /\ UNCHANGED <<limiter_vars, priority_map, stats_enabled, stats, writer_vars,
                   setter_vars, driver_vars, registry_vars, metrics_vars>>

\* IORateLimiterStatistics::reset, through the handle statistics() gives out:
\* one store of its loop; the requests of other threads are recorded between
\* the stores.
Reset ==
    /\ stats_enabled
    /\ stats' = StatsReset(stats, resetting)
    /\ resetting' = (resetting + 1) % (2 * Cardinality(IOType))
    /\ UNCHANGED <<limiter_vars, priority_map, stats_enabled, shared, writer_vars,
                   setter_vars, driver_vars, registry_vars, last_fetch, IO_BYTES_VEC,
                   flushing, fetcher, snooped>>

\* IORateLimiter::request / async_request, entry: only writes and Export go
\* to the priority limiter.
RateLimited(io_type, io_op) == io_op = "Write" \/ io_type = Export

\* Mutant: the clamp takes the whole epoch budget whatever the request size.
ClampAmount_WholeBudget(bytes, cached) == cached

\* request_impl: the amount asked of one epoch is clamped to the epoch budget.
ClampAmount(bytes, cached) == Min(bytes, cached)

\* Mutant: the disabled check is missing, a zero budget is used as a budget.
Attempt_NoDisabledCheck(w, r) ==
    /\ req' = [req EXCEPT ![w] = [r EXCEPT !.cached = ios_per_epoch[r.priority],
                                            !.amount = Min(r.bytes, ios_per_epoch[r.priority]),
                                            !.pending = 0]]
    /\ pc' = [pc EXCEPT ![w] = "add"]

\* request_impl: load of ios_per_epoch; a zero budget returns the request size.
Attempt(w, r) ==
    LET cached == ios_per_epoch[r.priority]
    IN  IF cached = 0
        THEN /\ req' = [req EXCEPT ![w] = [r EXCEPT !.cached = 0, !.amount = 0,
                                                    !.pending = 0, !.ret = r.bytes]]
             /\ pc' = [pc EXCEPT ![w] = "record"]
        ELSE /\ req' = [req EXCEPT ![w] = [r EXCEPT !.cached = cached,
                                                    !.amount = ClampAmount(r.bytes, cached),
                                                    !.pending = 0]]
             /\ pc' = [pc EXCEPT ![w] = "add"]

\* The call, up to the first load of ios_per_epoch.
Call(w, io_type, io_op, bytes) ==
    /\ shared
    /\ pc[w] = "idle"
    /\ stats_enabled => StatsFetch(stats, io_type, io_op) + bytes <= MaxStat
    /\ LET r == [NoRequest EXCEPT !.io_type = io_type, !.io_op = io_op,
                                  !.bytes = bytes,
                                  !.priority = priority_map[io_type],
                                  !.ret = bytes]
       IN  IF RateLimited(io_type, io_op)
           THEN Attempt(w, r)
           ELSE /\ req' = [req EXCEPT ![w] = r]
                /\ pc' = [pc EXCEPT ![w] = "record"]
    /\ UNCHANGED <<limiter_vars, facade_vars, setter_vars, driver_vars, registry_vars, metrics_vars>>

\* The next turn of request_impl's loop.
Load(w) ==
    /\ pc[w] = "load"
    /\ Attempt(w, req[w])
    /\ UNCHANGED <<limiter_vars, facade_vars, setter_vars, driver_vars, registry_vars, metrics_vars>>

\* Mutant: the fast path grants whatever the epoch has let through.
FitsEpoch_Always(through, cached) == TRUE

\* request_impl: fetch_add on ios_through and the fast-path return.
FitsEpoch(through, cached) == through <= cached

Add(w) ==
    /\ pc[w] = "add"
    /\ LET p == req[w].priority
           through == ios_through[p] + req[w].amount
       IN  /\ ios_through' = [ios_through EXCEPT ![p] = Saturate(through)]
           /\ IF FitsEpoch(through, req[w].cached)
              THEN /\ req' = [req EXCEPT ![w].ret = req[w].amount]
                   /\ pc' = [pc EXCEPT ![w] = "record"]
              ELSE /\ req' = req
                   /\ pc' = [pc EXCEPT ![w] = "now"]
    /\ UNCHANGED <<ios_per_epoch, next_refill_time, pending_ios, estimated_ios_through,
                   mutex, facade_vars, setter_vars, driver_vars, registry_vars, metrics_vars>>

\* request_impl: let now = Instant::now_coarse(), before the lock is asked for.
Now(w) ==
    /\ pc[w] = "now"
    /\ req' = [req EXCEPT ![w].until = next_refill_time]
    /\ pc' = [pc EXCEPT ![w] = "lock"]
    /\ UNCHANGED <<limiter_vars, facade_vars, setter_vars, driver_vars, registry_vars, metrics_vars>>

\* request_impl, under the lock: locked.next_refill_time + 1 ms >= now +
\* DEFAULT_REFILL_PERIOD, with until = locked.next_refill_time - now.
RefillSlippedIn(until) == until + RefillSlack >= DEFAULT_REFILL_PERIOD

\* Mutant: a booking that fills the budget exactly is refused.
Granted_Strict(pending, cached) == pending < cached

\* Mutant: every booking is granted.
Granted_Always(pending, cached) == TRUE

\* request_impl: a booking is granted if the epoch's bookings fit the budget.
Granted(pending, cached) == pending <= cached

\* Mutant: the request keeps the lock while it sleeps.
Lock_SleepsLocked(w) ==
    /\ pc[w] = "lock"
    /\ mutex = "free"
    /\ LET p == req[w].priority
           pending == Saturate(pending_ios[p] + req[w].amount)
       IN  IF RefillSlippedIn(req[w].until)
           THEN /\ pc' = [pc EXCEPT ![w] = "load"]
                /\ UNCHANGED <<pending_ios, req, mutex>>
           ELSE /\ pending_ios' = [pending_ios EXCEPT ![p] = pending]
                /\ IF req[w].until > 0
                   THEN /\ req' = [req EXCEPT ![w].pending = pending,
                                              ![w].wake = req[w].until]
                        /\ pc' = [pc EXCEPT ![w] = "sleep"]
                        /\ mutex' = w
                   ELSE IF Granted(pending, req[w].cached)
                   THEN /\ req' = [req EXCEPT ![w].pending = pending,
                                              ![w].ret = req[w].amount]
                        /\ pc' = [pc EXCEPT ![w] = "record"]
                        /\ mutex' = mutex
                   ELSE /\ req' = [req EXCEPT ![w].pending = pending]
                        /\ pc' = [pc EXCEPT ![w] = "load"]
                        /\ mutex' = mutex
    /\ UNCHANGED <<ios_through, ios_per_epoch, next_refill_time, estimated_ios_through,
                   facade_vars, setter_vars, driver_vars, registry_vars, metrics_vars>>

\* request_impl: the critical section, the start of the sleep for
\* next_refill_time - now, and (when there is nothing to sleep) the check
\* that follows the skipped sleep.
Lock(w) ==
    /\ pc[w] = "lock"
    /\ mutex = "free"
    /\ LET p == req[w].priority
           pending == Saturate(pending_ios[p] + req[w].amount)
       IN  IF RefillSlippedIn(req[w].until)
           THEN /\ pc' = [pc EXCEPT ![w] = "load"]
                /\ UNCHANGED <<pending_ios, req>>
           ELSE /\ pending_ios' = [pending_ios EXCEPT ![p] = pending]
                /\ IF req[w].until > 0
                   THEN /\ req' = [req EXCEPT ![w].pending = pending,
                                              ![w].wake = req[w].until]
                        /\ pc' = [pc EXCEPT ![w] = "sleep"]
                   ELSE IF Granted(pending, req[w].cached)
                   THEN /\ req' = [req EXCEPT ![w].pending = pending,
                                              ![w].ret = req[w].amount]
                        /\ pc' = [pc EXCEPT ![w] = "record"]
                   ELSE /\ req' = [req EXCEPT ![w].pending = pending]
                        /\ pc' = [pc EXCEPT ![w] = "load"]
    /\ UNCHANGED <<ios_through, ios_per_epoch, next_refill_time, estimated_ios_through,
                   mutex, facade_vars, setter_vars, driver_vars, registry_vars, metrics_vars>>

\* request_impl: the end of the sleep and the check that follows it.
Wake(w) ==
    /\ pc[w] = "sleep"
    /\ req[w].wake = 0
    /\ IF Granted(req[w].pending, req[w].cached)
       THEN /\ req' = [req EXCEPT ![w].ret = req[w].amount]
            /\ pc' = [pc EXCEPT ![w] = "record"]
       ELSE /\ req' = req
            /\ pc' = [pc EXCEPT ![w] = "load"]
    /\ UNCHANGED <<limiter_vars, facade_vars, setter_vars, driver_vars, registry_vars, metrics_vars>>

\* IORateLimiter::request, exit: record the granted bytes and return them.
Record(w) ==
    /\ pc[w] = "record"
    /\ stats' = IF stats_enabled
                THEN StatsRecord(stats, req[w].io_type, req[w].io_op, req[w].ret)
                ELSE stats
    /\ pc' = [pc EXCEPT ![w] = "idle"]
    /\ req' = [req EXCEPT ![w] = NoRequest]
    /\ UNCHANGED <<limiter_vars, priority_map, stats_enabled, shared, setter_vars,
                   driver_vars, registry_vars, metrics_vars>>

\* ------------------------------------------------------- set_ios_per_sec
\* Mutant: only switching off is treated as a toggle.
CrossesToggle_OffOnly(before, now) == now = 0

CrossesToggle(before, now) == before = 0 \/ now = 0

\* Mutant: a new rate ends the sleep of the requests that wait.
SetRate_WakesSleepers(s, ios_per_sec) ==
    /\ spc[s] = "idle"
    /\ LET now == calculate_ios_per_refill(ios_per_sec, DEFAULT_REFILL_PERIOD)
           before == ios_per_epoch[High]
       IN  /\ ios_per_epoch' = [ios_per_epoch EXCEPT ![High] = now]
           /\ IF CrossesToggle(before, now)
              THEN /\ spc' = [spc EXCEPT ![s] = "toggle"]
                   /\ snow' = [snow EXCEPT ![s] = now]
              ELSE UNCHANGED <<spc, snow>>
    /\ req' = [w \in Writers |-> [req[w] EXCEPT !.wake = 0]]
    /\ UNCHANGED <<ios_through, next_refill_time, pending_ios, estimated_ios_through,
                   mutex, facade_vars, pc, driver_vars, registry_vars, metrics_vars>>

SetRate(s, ios_per_sec) ==
    /\ spc[s] = "idle"
    /\ LET now == calculate_ios_per_refill(ios_per_sec, DEFAULT_REFILL_PERIOD)
           before == ios_per_epoch[High]
       IN  /\ ios_per_epoch' = [ios_per_epoch EXCEPT ![High] = now]
           /\ IF CrossesToggle(before, now)
              THEN /\ spc' = [spc EXCEPT ![s] = "toggle"]
                   /\ snow' = [snow EXCEPT ![s] = now]
              ELSE UNCHANGED <<spc, snow>>
    /\ UNCHANGED <<ios_through, next_refill_time, pending_ios, estimated_ios_through,
                   mutex, facade_vars, writer_vars, driver_vars, registry_vars, metrics_vars>>

\* set_ios_per_sec, the toggle: the lock and the store into Medium, then the
\* store into Low and the unlock.
Toggle(s) ==
    /\ \/ /\ spc[s] = "toggle"
          /\ mutex = "free"
          /\ ios_per_epoch' = [ios_per_epoch EXCEPT ![Medium] = snow[s]]
          /\ mutex' = s
          /\ spc' = [spc EXCEPT ![s] = "low"]
          /\ snow' = snow
       \/ /\ spc[s] = "low"
          /\ ios_per_epoch' = [ios_per_epoch EXCEPT ![Low] = snow[s]]
          /\ mutex' = "free"
          /\ spc' = [spc EXCEPT ![s] = "idle"]
          /\ snow' = [snow EXCEPT ![s] = 0]
    /\ UNCHANGED <<ios_through, next_refill_time, pending_ios, estimated_ios_through,
                   facade_vars, writer_vars, driver_vars, registry_vars, metrics_vars>>

\* ---------------------------------------------------------------- refill
\* Mutant: the lower priority is handed what is left, be it nothing.
Residual_NoFloor(limit, estimated) == IF limit > estimated THEN limit - estimated ELSE 0

\* Mutant: the lower priority is handed the whole limit.
Residual_Whole(limit, estimated) == limit

\* Mutant: the lower priority is handed the floor whatever is left.
Residual_FloorOnly(limit, estimated) == 1

\* refill: what the estimate of a priority's flow leaves of its limit for the
\* priority below, and 1 if it leaves nothing.
Residual(limit, estimated) == IF limit > estimated THEN limit - estimated ELSE 1

\* refill's loop, for p in &[High, Medium], one access to the atomics at a
\* time, on the limiter state st = [through, per_epoch, pending, est, at, pi,
\* limit, emitted]: at "limit" the load of ios_per_epoch[pi], at "swap" the
\* swap of ios_through[pi] with the estimator's update, at "store" the store
\* into ios_per_epoch[pi - 1] if the estimator emitted; pending_ios[pi] is
\* under the lock, and is zeroed along with the swap. After Medium's
\* iteration at is "done".
RefillIterate(st) ==
    IF st.pi = High
    THEN [st EXCEPT !.at = "limit", !.pi = Medium, !.limit = 0, !.emitted = 0]
    ELSE [st EXCEPT !.at = "done", !.pi = High, !.limit = 0, !.emitted = 0]

RefillStep(st) ==
    LET pi == st.pi
    IN  CASE st.at = "limit" ->
                [st EXCEPT !.limit = st.per_epoch[pi], !.at = "swap"]
          [] st.at = "swap" ->
                LET upd == maybe_update_estimation(st.est[pi], Min(st.through[pi], st.limit))
                    swapped == [st EXCEPT !.through[pi] = st.pending[pi],
                                          !.est[pi] = upd.est,
                                          !.pending[pi] = 0]
                IN  IF upd.some
                    THEN [swapped EXCEPT !.emitted = upd.value, !.at = "store"]
                    ELSE RefillIterate(swapped)
          [] st.at = "store" ->
                RefillIterate([st EXCEPT !.per_epoch[pi - 1] = Residual(st.limit, st.emitted)])
          [] OTHER -> st

\* new_io_rate_limiter_daemon: stop is created false, the thread starts and
\* calls refill at once; the caller holds the handle.
DaemonStart ==
    /\ shared
    /\ dpc = "stopped"
    /\ dpc' = "sleep"
    /\ dtimer' = 0
    /\ stop' = FALSE
    /\ daemon' = "held"
    /\ UNCHANGED <<limiter_vars, facade_vars, writer_vars, setter_vars, refilling,
                   registry_vars, metrics_vars>>

\* new_io_rate_limiter_daemon: while !stop1.load(), the head of the thread's loop.
LoopExits(stopped) == stopped

\* The head of the daemon's loop: the load of stop, then the call of refill.
DaemonLoop ==
    /\ dpc = "sleep"
    /\ dtimer = 0
    /\ IF LoopExits(stop)
       THEN dpc' = "exited" /\ dtimer' = 0
       ELSE dpc' = "lock" /\ dtimer' = 0
    /\ UNCHANGED <<limiter_vars, facade_vars, writer_vars, setter_vars, stop, daemon,
                   refilling, registry_vars, metrics_vars>>

\* refill returns: the guard unlocks, the daemon thread sleeps
\* DEFAULT_REFILL_PERIOD, the worker's task waits to be fired again.
RefillReturn ==
    /\ mutex' = "free"
    /\ dpc' = IF daemon = "none" THEN "stopped" ELSE "sleep"
    /\ dtimer' = IF daemon = "none" THEN 0 ELSE DEFAULT_REFILL_PERIOD

\* refill: try_lock_for and expect, the disabled check and the new
\* next_refill_time. try_lock_for takes a free mutex at once; an attempt
\* that finds it held starts the wait of DEFAULT_REFILL_PERIOD ("wait"), and
\* a lock that stays held until that wait is over makes expect panic, which
\* ends the thread. Every `now` that a request holds is at least
\* DEFAULT_REFILL_PERIOD before the new next_refill_time.
RefillBegin ==
    /\ dpc \in {"lock", "wait"}
    /\ IF mutex = "free"
       THEN IF ios_per_epoch[High] = 0
            THEN /\ RefillReturn
                 /\ UNCHANGED <<next_refill_time, req>>
            ELSE /\ next_refill_time' = DEFAULT_REFILL_PERIOD
                 /\ req' = [w \in Writers |->
                              IF pc[w] = "lock"
                              THEN [req[w] EXCEPT !.until = DEFAULT_REFILL_PERIOD]
                              ELSE req[w]]
                 /\ mutex' = "daemon"
                 /\ dpc' = "limit"
                 /\ dtimer' = 0
       ELSE IF dpc = "lock"
       THEN /\ dpc' = "wait"
            /\ dtimer' = DEFAULT_REFILL_PERIOD
            /\ UNCHANGED <<next_refill_time, req, mutex>>
       ELSE /\ dtimer = 0
            /\ dpc' = "panicked"
            /\ UNCHANGED <<next_refill_time, req, mutex, dtimer>>
    /\ UNCHANGED <<ios_through, ios_per_epoch, pending_ios, estimated_ios_through,
                   facade_vars, pc, setter_vars, stop, daemon, refilling, registry_vars,
                   metrics_vars>>

\* refill: the next access of the loop over High and Medium; after the last
\* one refill returns.
RefillBody ==
    /\ dpc \in {"limit", "swap", "store"}
    /\ \E st \in {RefillStep([through |-> ios_through, per_epoch |-> ios_per_epoch,
                                pending |-> pending_ios, est |-> estimated_ios_through,
                                at |-> dpc, pi |-> refilling.pi,
                                limit |-> refilling.limit,
                                emitted |-> refilling.emitted])} :
           /\ ios_through' = st.through
           /\ ios_per_epoch' = st.per_epoch
           /\ pending_ios' = st.pending
           /\ estimated_ios_through' = st.est
           /\ refilling' = [pi |-> st.pi, limit |-> st.limit, emitted |-> st.emitted]
           /\ IF st.at = "done"
              THEN RefillReturn
              ELSE dpc' = st.at /\ UNCHANGED <<mutex, dtimer>>
    /\ UNCHANGED <<next_refill_time, facade_vars, writer_vars, setter_vars, stop, daemon,
                   registry_vars, metrics_vars>>

\* Drop for IORateLimiterDaemon: the store into stop; the thread is detached.
DaemonDrop ==
    /\ daemon = "held"
    /\ daemon' = "dropped"
    /\ stop' = FALSE
    /\ UNCHANGED <<limiter_vars, facade_vars, writer_vars, setter_vars, dpc, dtimer,
                   refilling, registry_vars, metrics_vars>>

\* set_io_rate_limiter: the slot is replaced under its own mutex. An Arc of
\* the limiter exists only once the limiter is shared.
SetIoRateLimiter(limiter) ==
    /\ limiter = ThisLimiter => shared
    /\ IO_RATE_LIMITER' = limiter
    /\ UNCHANGED <<limiter_vars, facade_vars, writer_vars, setter_vars, driver_vars, fetched,
                   metrics_vars>>

\* Mutant: get takes the limiter out of the slot.
GetIoRateLimiter_Take(c) ==
    /\ fetched' = [fetched EXCEPT ![c] = IO_RATE_LIMITER]
    /\ IO_RATE_LIMITER' = NoLimiter
    /\ UNCHANGED <<limiter_vars, facade_vars, writer_vars, setter_vars, driver_vars,
                   metrics_vars>>

\* get_io_rate_limiter: a clone of what the slot holds, under the slot's mutex.
GetIoRateLimiter(c) ==
    /\ fetched' = [fetched EXCEPT ![c] = IO_RATE_LIMITER]
    /\ UNCHANGED <<limiter_vars, facade_vars, writer_vars, setter_vars, driver_vars,
                   IO_RATE_LIMITER, metrics_vars>>

\* start_io_rate_limiter_daemon: the worker's interval task fires, finds the
\* limiter in the slot and calls refill.
RefillCall ==
    /\ daemon = "none"
    /\ dpc = "stopped"
    /\ IO_RATE_LIMITER = ThisLimiter
    /\ dpc' = "lock"
    /\ dtimer' = 0
    /\ UNCHANGED <<limiter_vars, facade_vars, writer_vars, setter_vars, stop, daemon,
                   refilling, registry_vars, metrics_vars>>

\* ------------------------------------------------------------------ time
\* Time advances to the next instant at which some comparison of the code
\* changes its outcome: the end of the slack after a refill, the scheduled
\* refill time, the end of a sleep, the end of refill's wait for a lock that
\* is held.
TimeEvents ==
    {next_refill_time - (DEFAULT_REFILL_PERIOD - RefillSlack - 1), next_refill_time}
    \cup {req[w].wake : w \in {x \in Writers : pc[x] = "sleep"}}
    \cup (IF dpc = "sleep" \/ (dpc = "wait" /\ mutex # "free") THEN {dtimer} ELSE {})

Elapse(t, d) == IF t > d THEN t - d ELSE 0

Tick ==
    /\ \E d \in TimeEvents :
        /\ d > 0
        /\ \A e \in TimeEvents : e > 0 => d <= e
        /\ next_refill_time' = Elapse(next_refill_time, d)
        /\ dtimer' = Elapse(dtimer, d)
        /\ req' = [w \in Writers |-> [req[w] EXCEPT !.wake = Elapse(@, d)]]
    /\ UNCHANGED <<ios_through, ios_per_epoch, pending_ios, estimated_ios_through,
                   mutex, facade_vars, pc, setter_vars, dpc, stop, daemon, refilling,
                   registry_vars, metrics_vars>>

\* ------------------------------------------------------------------ spec
\* One client thread, one thread that reconfigures the rate, and the daemon.
SpecTypes == {Compaction}
SpecBytes == {0, 1, 3}
SpecRates == {0, 70}

ProgNext ==
    \/ \E p \in IOPriority : SetIoPriority(Compaction, p)
    \/ Share
    \/ \E t \in SpecTypes, o \in IOOp, b \in SpecBytes : Call("w1", t, o, b)
    \/ Load("w1")
    \/ Add("w1")
    \/ Now("w1")
    \/ Lock("w1")
    \/ Wake("w1")
    \/ Record("w1")
    \/ \E r \in SpecRates : SetRate("s1", r)
    \/ Toggle("s1")
    \/ DaemonStart
    \/ DaemonLoop
    \/ (estimated_ios_through[High].count < MaxRefills /\ RefillBegin)
    \/ RefillBody
    \/ Tick

\* ------------------------------------------------------------- observers
\* Observers record what the claims speak about and the code does not keep.
\* Every specification states how its actions move them.
VARIABLES
    rate_phase,     \* how far the limiter is past the last return of set_io_rate_limit
    returned,       \* [IOType -> [IOOp -> sum of the values request returned]]
    acct            \* per-epoch accounts of the scenario priority

obs_vars == <<rate_phase, returned, acct>>
vars == <<prog_vars, obs_vars>>

ReturnedNew == [t \in IOType |-> [o \in IOOp |-> 0]]

\* The accounts are kept per refill epoch; an epoch ends when refill swaps
\* ios_through. In the pairs, index 1 is the current epoch and index 2 the one
\* before it.
\*   rec    bytes returned to callers (the bytes request records in Stats)
\*   dec    bytes whose grant was decided: charged on the fast path, or booked
\*          in pending_ios within the budget
\*   sat    every writer had a request outstanding for the whole epoch and
\*          time passed only while each of them slept, or went round its
\*          loop in the millisecond after a refill
\*   asked  bytes asked by the requests outstanding at some time in the
\*          current epoch
\*   got    bytes granted out of the current epoch, by priority: those that
\*          passed the fast path in it and those booked for it before it began
\*   due    bytes booked, and granted, for the epoch the next refill begins
\*   steady every refill so far found High's load of the hybrid flow in
\*          ios_through[High]
\*   unsettled  the writers whose call in progress added bytes to pending_ios
\*          that no refill has taken out of it yet
\*   window the samples given to High's estimator since its last complete
\*          window of ShortWindow samples
\*   means  floor(sum / ShortWindow) of the windows completed since the last
\*          call but one that emitted a value
\*   emitted  <<v>> if the last call of maybe_update_estimation returned
\*          Some(v), <<>> if it returned None
AcctNew == [rec |-> <<0, 0>>, dec |-> <<0, 0>>,
            sat |-> <<FALSE, FALSE>>, asked |-> 0,
            got |-> [p \in IOPriority |-> 0],
            due |-> [p \in IOPriority |-> 0], steady |-> TRUE, unsettled |-> {},
            window |-> <<>>, means |-> {}, emitted |-> <<>>]

ObsNew ==
    /\ rate_phase = "none"
    /\ returned = ReturnedNew
    /\ acct = AcctNew

Init == ProgNew(FALSE) /\ ObsNew

Next == ProgNext /\ UNCHANGED obs_vars

Spec == Init /\ [][Next]_vars

\* ------------------------------------------------- the critical sections
\* The threads of Spec, none of which stalls at the mutex: its holders
\* (request_impl's block, set_ios_per_sec's two stores, refill) run straight
\* through to the unlock and a refill that waits in try_lock_for takes the
\* mutex as soon as it is free, so time passes only while the mutex is free
\* and refill does not wait for it, or while its holder sleeps.
NoStallLocked ==
    IF mutex = "free"
    THEN dpc # "wait"
    ELSE \E w \in Writers : mutex = w /\ pc[w] = "sleep"

HoldNext ==
    \/ (\E p \in IOPriority : SetIoPriority(Compaction, p)) /\ UNCHANGED obs_vars
    \/ Share /\ UNCHANGED obs_vars
    \/ (\E o \in IOOp, b \in SpecBytes : Call("w1", Compaction, o, b)) /\ UNCHANGED obs_vars
    \/ Load("w1") /\ UNCHANGED obs_vars
    \/ Add("w1") /\ UNCHANGED obs_vars
    \/ Now("w1") /\ UNCHANGED obs_vars
    \/ Lock("w1") /\ UNCHANGED obs_vars
    \/ Wake("w1") /\ UNCHANGED obs_vars
    \/ Record("w1") /\ UNCHANGED obs_vars
    \/ (\E r \in SpecRates : SetRate("s1", r)) /\ UNCHANGED obs_vars
    \/ Toggle("s1") /\ UNCHANGED obs_vars
    \/ DaemonStart /\ UNCHANGED obs_vars
    \/ DaemonLoop /\ UNCHANGED obs_vars
    \/ (estimated_ios_through[High].count < MaxRefills /\ RefillBegin) /\ UNCHANGED obs_vars
    \/ RefillBody /\ UNCHANGED obs_vars
    \/ (NoStallLocked /\ Tick) /\ UNCHANGED obs_vars

SpecHold == Init /\ [][HoldNext]_vars

\* -------------------------------------------------------------- SpecRate
\* set_io_rate_limit and the daemon alone: no request is issued.
MaxRateRefills == 6

NextRate ==
    \/ /\ Share
       /\ UNCHANGED obs_vars
    \/ /\ \E r \in Rates : SetRate("s1", r)
       /\ rate_phase' = IF spc'["s1"] = "idle" THEN "set" ELSE rate_phase
       /\ UNCHANGED <<returned, acct>>
    \/ /\ Toggle("s1")
       /\ rate_phase' = IF spc'["s1"] = "idle" THEN "set" ELSE rate_phase
       /\ UNCHANGED <<returned, acct>>
    \/ /\ DaemonStart
       /\ UNCHANGED obs_vars
    \/ /\ DaemonLoop
       /\ UNCHANGED obs_vars
    \/ /\ estimated_ios_through[High].count < MaxRateRefills
       /\ RefillBegin
       /\ rate_phase' = IF rate_phase = "set" /\ dpc' = "limit" THEN "begun" ELSE rate_phase
       /\ UNCHANGED <<returned, acct>>
    \/ /\ RefillBody
       /\ rate_phase' = IF rate_phase = "begun" /\ dpc' = "sleep"
                        THEN "refilled" ELSE rate_phase
       /\ UNCHANGED <<returned, acct>>
    \/ /\ Tick
       /\ UNCHANGED obs_vars

SpecRate == Init /\ [][NextRate]_vars

\* -------------------------------------------------------------- SpecFlow
\* Two writers of Compaction writes under a fixed positive rate, and the
\* daemon. Compaction has any one of the three priorities.
FlowRate == 70
FlowBytes == {1, 2}
MaxFlowRefills == 1

FlowPriority == priority_map[Compaction]
FlowBudget == ios_per_epoch[FlowPriority]
Epoch == estimated_ios_through[High].count

\* refill is about to swap ios_through[p], which ends p's epoch.
RefillSwaps(p) == dpc = "swap" /\ refilling.pi = p
\* The accounts of the scenario priority are shifted at its swap; those of
\* Low, which refill never swaps, at High's.
EpochEnds == RefillSwaps(IF FlowPriority = Low THEN High ELSE FlowPriority)

Bump(pair, n) == <<pair[1] + n, pair[2]>>
Shift(pair, v) == <<v, pair[1]>>

\* The bytes whose grant the step of writer w decides.
Decided(w) ==
    IF \/ pc[w] \in {"add", "lock"} /\ pc'[w] = "record"
       \/ /\ pc[w] = "lock"
          /\ pc'[w] = "sleep"
          /\ Granted(req'[w].pending, req'[w].cached)
    THEN req[w].amount
    ELSE 0

\* The bytes the step of writer w lets through on the fast path, and the
\* bytes it books with a grant for the next epoch.
Passed(w) == IF pc[w] = "add" /\ pc'[w] = "record" THEN req[w].amount ELSE 0
Booked(w) == IF pc[w] = "lock" THEN Decided(w) ELSE 0

FlowInit ==
    /\ \E p \in IOPriority : ProgConfigured(FALSE, FlowRate, CompactionAt(p), "held")
    /\ ObsNew

FlowNext ==
    \/ /\ \E w \in Writers, b \in FlowBytes : Call(w, Compaction, "Write", b)
       /\ UNCHANGED obs_vars
    \/ /\ \E w \in Writers : Load(w) \/ Now(w)
       /\ UNCHANGED obs_vars
    \/ \E w \in Writers :
          /\ Add(w) \/ Lock(w)
          /\ acct' = [acct EXCEPT !.dec = Bump(@, Decided(w))]
          /\ UNCHANGED <<rate_phase, returned>>
    \/ /\ \E w \in Writers : Wake(w)
       /\ UNCHANGED obs_vars
    \/ \E w \in Writers :
          /\ Record(w)
          /\ acct' = [acct EXCEPT !.rec = Bump(@, req[w].ret)]
          /\ UNCHANGED <<rate_phase, returned>>
    \/ /\ DaemonLoop
       /\ UNCHANGED obs_vars
    \/ /\ Epoch < MaxFlowRefills
       /\ RefillBegin
       /\ UNCHANGED obs_vars
    \/ /\ RefillBody
       /\ acct' = IF EpochEnds
                  THEN [acct EXCEPT !.rec = Shift(@, 0), !.dec = Shift(@, 0)]
                  ELSE acct
       /\ UNCHANGED <<rate_phase, returned>>
    \/ /\ Tick
       /\ UNCHANGED obs_vars

SpecFlow == FlowInit /\ [][FlowNext]_vars

\* --------------------------------------------------------------- SpecSat
\* Two writers of High-priority Compaction writes of mixed sizes under a
\* fixed positive rate, and the daemon. The writers saturate the limiter:
\* time passes only while neither of them stalls.
SatRate == 100
MaxSatRefills == 3
\* The sizes of the requests.
SatBytes == {1, 2}

SatInit == ProgConfigured(FALSE, SatRate, CompactionAt(High), "held") /\ ObsNew

\* No writer stalls while time passes: each one sleeps, or goes round
\* request_impl's loop in the millisecond that follows a refill.
AllWaiting ==
    \A w \in Writers :
        \/ pc[w] = "sleep" /\ req[w].wake > 0
        \/ pc[w] = "load" /\ RefillSlippedIn(next_refill_time)
AllOutstanding == \A w \in Writers : pc[w] # "idle"

SatNext ==
    \/ /\ \E w \in Writers, b \in SatBytes : Call(w, Compaction, "Write", b)
       /\ UNCHANGED obs_vars
    \/ /\ \E w \in Writers : Load(w) \/ Now(w) \/ Wake(w)
       /\ UNCHANGED obs_vars
    \/ \E w \in Writers :
          /\ Add(w) \/ Lock(w)
          /\ acct' = [acct EXCEPT !.got[High] = @ + Passed(w),
                                  !.due[High] = @ + Booked(w)]
          /\ UNCHANGED <<rate_phase, returned>>
    \/ \E w \in Writers :
          /\ Record(w)
          /\ acct' = [acct EXCEPT !.rec = Bump(@, req[w].ret)]
          /\ UNCHANGED <<rate_phase, returned>>
    \/ /\ DaemonLoop
       /\ UNCHANGED obs_vars
    \/ /\ Epoch < MaxSatRefills
       /\ RefillBegin
       /\ UNCHANGED obs_vars
    \/ /\ RefillBody
       /\ acct' = IF RefillSwaps(High)
                  THEN [acct EXCEPT !.rec = Shift(@, 0),
                                    !.got[High] = acct.due[High], !.due[High] = 0,
                                    !.sat = <<AllOutstanding, @[1] /\ AllOutstanding>>]
                  ELSE acct
       /\ UNCHANGED <<rate_phase, returned>>
    \/ /\ AllWaiting
       /\ Tick
       /\ UNCHANGED obs_vars

SpecSat == SatInit /\ [][SatNext]_vars

\* ------------------------------------------------------------- SpecLight
\* Two writers of Compaction writes under a fixed positive rate, and the
\* daemon; Compaction has any one of the three priorities. The writers offer
\* a light flow: the bytes asked by the requests outstanding at some time in
\* an epoch never exceed the epoch budget.
MaxLightRefills == 3

RECURSIVE SumBytes(_)
SumBytes(ws) ==
    IF ws = {} THEN 0
    ELSE LET w == CHOOSE x \in ws : TRUE IN req[w].bytes + SumBytes(ws \ {w})

LightInit ==
    /\ \E p \in IOPriority : ProgConfigured(FALSE, FlowRate, CompactionAt(p), "held")
    /\ ObsNew

LightNext ==
    \/ \E w \in Writers, b \in ReqBytes :
          /\ acct.asked + b <= FlowBudget
          /\ Call(w, Compaction, "Write", b)
          /\ acct' = [acct EXCEPT !.asked = @ + b]
          /\ UNCHANGED <<rate_phase, returned>>
    \/ /\ \E w \in Writers : Load(w) \/ Add(w) \/ Now(w) \/ Lock(w) \/ Wake(w) \/ Record(w)
       /\ UNCHANGED obs_vars
    \/ /\ DaemonLoop
       /\ UNCHANGED obs_vars
    \/ /\ Epoch < MaxLightRefills
       /\ RefillBegin
       /\ UNCHANGED obs_vars
    \/ /\ RefillBody
       /\ acct' = IF EpochEnds
                  THEN [acct EXCEPT !.asked = SumBytes({w \in Writers : pc[w] # "idle"})]
                  ELSE acct
       /\ UNCHANGED <<rate_phase, returned>>
    \/ /\ Tick
       /\ UNCHANGED obs_vars

SpecLight == LightInit /\ [][LightNext]_vars

\* ------------------------------------------------------------- SpecStats
\* Two threads that request reads and writes of Compaction and Export on a
\* limiter with statistics, under a fixed positive rate, in the first epoch
\* (the worker's interval task has not fired yet), and a thread that resets
\* the statistics. A counter's sum of returned values
\* starts again when reset stores 0 into that counter.
StatsTypes == {Compaction, Export}
StatsRate == 40
StatsBytes == {2}         \* twice the epoch budget: a limited request is granted 1

\* The bytes recorded since the last reset, over the types in use.
StatsTotal ==
    StatsFetch(stats, Compaction, "Read") + StatsFetch(stats, Compaction, "Write")
    + StatsFetch(stats, Export, "Read") + StatsFetch(stats, Export, "Write")

StatsInit == ProgConfigured(TRUE, StatsRate, CompactionAt(High), "none") /\ ObsNew

StatsNext ==
    \/ /\ \E w \in Writers, t \in StatsTypes, o \in IOOp, b \in StatsBytes :
             /\ StatsTotal + SumBytes({x \in Writers : pc[x] # "idle"}) + b <= MaxStat
             /\ Call(w, t, o, b)
       /\ UNCHANGED obs_vars
    \/ /\ \E w \in Writers : Load(w) \/ Add(w) \/ Now(w) \/ Lock(w) \/ Wake(w)
       /\ UNCHANGED obs_vars
    \/ \E w \in Writers :
          /\ Record(w)
          /\ returned' = [returned EXCEPT ![req[w].io_type][req[w].io_op] = @ + req[w].ret]
          /\ UNCHANGED <<rate_phase, acct>>
    \/ /\ Reset
       /\ returned' = [returned EXCEPT
                         ![resetting \div 2][IF resetting % 2 = 0 THEN "Read" ELSE "Write"] = 0]
       /\ UNCHANGED <<rate_phase, acct>>
    \/ /\ Tick
       /\ UNCHANGED obs_vars

SpecStats == StatsInit /\ [][StatsNext]_vars

\* ------------------------------------------------------------- SpecSplit
\* The hybrid flow: ForegroundWrite at High, Compaction at Medium, Import at
\* Low. One thread writes ForegroundWrite, at most SplitLoad bytes per epoch;
\* once a refill has updated the budgets a second thread writes Compaction
\* and Import as fast as it can.
SplitRate == 100
SplitLoad == 1
MaxSplitRefills == 6

SplitInit == ProgConfigured(FALSE, SplitRate, HybridPriorities, "held") /\ ObsNew

\* Every priority is in an epoch that began after the budget update: High's
\* and Medium's swaps of the refill that followed it are done.
Settled ==
    /\ Epoch > ShortWindow
    /\ estimated_ios_through[Medium].count > ShortWindow
    /\ acct.steady

\* No thread stalls while time passes: a writer is between two requests,
\* sleeps, or goes round request_impl's loop in the millisecond that follows
\* a refill, and the daemon sleeps (or has done the refills of the run).
OnTime(refills) ==
    /\ \A w \in Writers :
          \/ pc[w] = "idle"
          \/ pc[w] = "sleep" /\ req[w].wake > 0
          \/ pc[w] = "load" /\ RefillSlippedIn(next_refill_time)
    /\ \/ dpc = "sleep" /\ dtimer > 0
       \/ dpc = "lock" /\ Epoch >= refills

\* The accounts after a step of refill: the swap of High ends the epoch of
\* High and of Low, which refill never swaps, the swap of Medium ends
\* Medium's.
SplitShift ==
    IF RefillSwaps(High)
    THEN [acct EXCEPT !.got[High] = acct.due[High], !.due[High] = 0,
                      !.got[Low] = acct.due[Low], !.due[Low] = 0,
                      !.asked = SumBytes({w \in {"w1"} : pc[w] # "idle"}),
                      !.steady = /\ @
                                 /\ ios_through[High] = SplitLoad
                                 /\ Epoch + 1 = ShortWindow => pc["w2"] = "idle"]
    ELSE IF RefillSwaps(Medium)
    THEN [acct EXCEPT !.got[Medium] = acct.due[Medium], !.due[Medium] = 0,
                      !.steady = @ /\ ios_through[Medium] >= ios_per_epoch[Medium]]
    ELSE acct

SplitNext ==
    \/ /\ acct.asked + 1 <= SplitLoad
       /\ Call("w1", ForegroundWrite, "Write", 1)
       /\ acct' = [acct EXCEPT !.asked = @ + 1]
       /\ UNCHANGED <<rate_phase, returned>>
    \/ /\ \E t \in {Compaction, Import} :
              /\ t = Import => Epoch >= ShortWindow
              /\ Call("w2", t, "Write", 1)
       /\ UNCHANGED obs_vars
    \/ /\ \E w \in Writers : Load(w) \/ Now(w) \/ Wake(w) \/ Record(w)
       /\ UNCHANGED obs_vars
    \/ \E w \in Writers :
          /\ Add(w) \/ Lock(w)
          /\ acct' = [acct EXCEPT !.got[req[w].priority] = @ + Passed(w),
                                  !.due[req[w].priority] = @ + Booked(w)]
          /\ UNCHANGED <<rate_phase, returned>>
    \/ /\ DaemonLoop
       /\ UNCHANGED obs_vars
    \/ /\ Epoch < MaxSplitRefills
       /\ RefillBegin
       /\ UNCHANGED obs_vars
    \/ /\ RefillBody
       /\ acct' = SplitShift
       /\ UNCHANGED <<rate_phase, returned>>
    \/ /\ OnTime(MaxSplitRefills)
       /\ Tick
       /\ UNCHANGED obs_vars

SpecSplit == SplitInit /\ [][SplitNext]_vars

\* -------------------------------------------------------------- SpecLive
\* One writer of Low-priority Compaction writes under a fixed positive rate
\* and a daemon that refills for ever. The daemon's thread keeps running
\* (weak fairness) and time keeps passing (strong fairness of the clock, which
\* the model stops while the writer is inside a turn of request_impl's
\* loop). The writer's thread keeps running, gets the mutex
\* if it is free again and again, and is not scheduled only in the
\* millisecond that follows each refill (strong fairness of its steps, and of
\* the critical section that books). Time passes only while the daemon
\* sleeps and the writer is between calls or waits for the next refill.
LiveRate == 40
\* The budget is 1 byte for every priority: request_impl clamps every
\* request to it, so one size stands for all.
LiveBytes == {1}

LiveInit == ProgConfigured(FALSE, LiveRate, CompactionAt(Low), "held") /\ ObsNew

LiveCall == (\E b \in LiveBytes : Call("w1", Compaction, "Write", b)) /\ UNCHANGED obs_vars
LiveWriter ==
    /\ Load("w1") \/ Add("w1") \/ Now("w1") \/ Lock("w1") \/ Wake("w1") \/ Record("w1")
    /\ UNCHANGED obs_vars
LiveBook ==
    /\ ~RefillSlippedIn(req["w1"].until)
    /\ Lock("w1")
    /\ UNCHANGED obs_vars
LiveTick ==
    /\ dpc = "sleep" /\ dtimer > 0
    /\ \/ pc["w1"] = "idle"
       \/ pc["w1"] = "sleep" /\ req["w1"].wake > 0
       \/ pc["w1"] = "load" /\ RefillSlippedIn(next_refill_time)
    /\ Tick
    /\ UNCHANGED obs_vars

LiveNext ==
    \/ LiveCall \/ LiveWriter
    \/ DaemonLoop /\ UNCHANGED obs_vars
    \/ RefillBegin /\ UNCHANGED obs_vars
    \/ RefillBody /\ UNCHANGED obs_vars
    \/ LiveTick

SpecLive ==
    /\ LiveInit
    /\ [][LiveNext]_vars
    /\ SF_vars(LiveWriter)
    /\ SF_vars(LiveBook)
    /\ WF_vars(DaemonLoop /\ UNCHANGED obs_vars)
    /\ WF_vars(RefillBegin /\ UNCHANGED obs_vars)
    /\ WF_vars(RefillBody /\ UNCHANGED obs_vars)
    /\ SF_vars(LiveTick)

\* ----------------------------------------------------------- SpecSetters
\* Two threads that call set_io_rate_limit, and the daemon: no request is
\* issued.
MaxSetRefills == 1

SetSteps ==
    \/ Share
    \/ \E s \in Setters, r \in Rates : SetRate(s, r)
    \/ \E s \in Setters : Toggle(s)
    \/ DaemonStart
    \/ DaemonLoop
    \/ (estimated_ios_through[High].count < MaxSetRefills /\ RefillBegin)
    \/ RefillBody
    \/ Tick

SetNext == SetSteps /\ UNCHANGED obs_vars

SpecSetters == Init /\ [][SetNext]_vars

\* ------------------------------------------------------------ SpecDonate
\* Compaction at Medium and Import at Low under positive rates that a thread
\* changes, and the daemon: nothing is requested at High. acct.steady holds
\* as long as nothing was requested at Medium either.
DonateRates == {40, 70}
MaxDonateRefills == 5

DonateInit == ProgConfigured(FALSE, FlowRate, HybridPriorities, "held") /\ ObsNew

DonateNext ==
    \/ /\ \E t \in {Compaction, Import} :
              /\ Call("w1", t, "Write", 1)
              /\ acct' = [acct EXCEPT !.steady = @ /\ priority_map[t] # Medium]
       /\ UNCHANGED <<rate_phase, returned>>
    \/ /\ Load("w1") \/ Add("w1") \/ Now("w1") \/ Lock("w1") \/ Wake("w1") \/ Record("w1")
       /\ UNCHANGED obs_vars
    \/ /\ \E r \in DonateRates : SetRate("s1", r)
       /\ UNCHANGED obs_vars
    \/ /\ DaemonLoop
       /\ UNCHANGED obs_vars
    \/ /\ Epoch < MaxDonateRefills
       /\ RefillBegin
       /\ UNCHANGED obs_vars
    \/ /\ RefillBody
       /\ UNCHANGED obs_vars
    \/ /\ Tick
       /\ UNCHANGED obs_vars

SpecDonate == DonateInit /\ [][DonateNext]_vars

\* ----------------------------------------------------------- SpecCadence
\* The daemon refilling for ever while a thread changes the rate between
\* positive rates: no request is issued, so that a refill that recomputes
\* the budgets hands High's budget down to Medium and Low.
CadenceNext ==
    \/ /\ \E r \in DonateRates : SetRate("s1", r)
       /\ UNCHANGED obs_vars
    \/ /\ DaemonLoop
       /\ UNCHANGED obs_vars
    \/ /\ RefillBegin
       /\ UNCHANGED obs_vars
    \/ /\ RefillBody
       /\ UNCHANGED obs_vars
    \/ /\ Tick
       /\ UNCHANGED obs_vars

SpecCadence == DonateInit /\ [][CadenceNext]_vars

\* ---------------------------------------------------------- SpecNoDriver
\* A shared limiter whose daemon was never started: a thread sets the rate
\* before the traffic starts, another one then writes Compaction at High.
\* The writer's thread keeps running (strong fairness of its steps), the
\* thread that sets the rate finishes the call it has begun, and the clock
\* keeps running.
NoDriverSetup ==
    /\ pc["w1"] = "idle" /\ ios_through[High] = 0
    /\ Share \/ (\E r \in Rates : SetRate("s1", r))
    /\ UNCHANGED obs_vars
NoDriverToggle == Toggle("s1") /\ UNCHANGED obs_vars
NoDriverCall ==
    /\ \E b \in ReqBytes : Call("w1", Compaction, "Write", b)
    /\ UNCHANGED obs_vars
NoDriverWriter ==
    /\ Load("w1") \/ Add("w1") \/ Now("w1") \/ Lock("w1") \/ Wake("w1") \/ Record("w1")
    /\ UNCHANGED obs_vars

NoDriverNext ==
    \/ NoDriverSetup \/ NoDriverToggle \/ NoDriverCall \/ NoDriverWriter
    \/ Tick /\ UNCHANGED obs_vars

SpecNoDriver ==
    /\ Init
    /\ [][NoDriverNext]_vars
    /\ SF_vars(NoDriverWriter)
    /\ WF_vars(NoDriverToggle)
    /\ WF_vars(Tick /\ UNCHANGED obs_vars)

\* ------------------------------------------------------------- SpecTwice
\* Two writers of Compaction writes at High under a fixed positive rate, and
\* the worker's interval task as the refill driver: it fires at any time,
\* twice at the same instant included. rate_phase is "begun" during a refill,
\* "refilled" from its return, and "again" during a refill called in that
\* phase; a step of a request and the passage of time reset it to "none".
MaxTwiceRefills == 2

TwiceInit == ProgConfigured(FALSE, FlowRate, CompactionAt(High), "none") /\ ObsNew

TwiceNext ==
    \/ /\ IO_RATE_LIMITER = NoLimiter
       /\ SetIoRateLimiter(ThisLimiter)
       /\ rate_phase' = "none"
       /\ UNCHANGED <<returned, acct>>
    \/ /\ \E w \in Writers, b \in FlowBytes : Call(w, Compaction, "Write", b)
       /\ rate_phase' = "none"
       /\ UNCHANGED <<returned, acct>>
    \/ /\ \E w \in Writers : Load(w) \/ Add(w) \/ Now(w) \/ Wake(w)
       /\ rate_phase' = "none"
       /\ UNCHANGED <<returned, acct>>
    \/ \E w \in Writers :
          /\ Record(w)
          /\ rate_phase' = "none"
          /\ acct' = [acct EXCEPT !.unsettled = @ \ {w}]
          /\ UNCHANGED returned
    \/ \E w \in Writers :
          /\ Lock(w)
          /\ rate_phase' = "none"
          /\ acct' = [acct EXCEPT !.unsettled = IF RefillSlippedIn(req[w].until)
                                                THEN @ ELSE @ \cup {w}]
          /\ UNCHANGED returned
    \/ /\ Epoch < MaxTwiceRefills
       /\ RefillCall
       /\ rate_phase' = IF rate_phase = "refilled" THEN "again" ELSE "begun"
       /\ UNCHANGED <<returned, acct>>
    \/ /\ RefillBegin
       /\ UNCHANGED obs_vars
    \/ /\ RefillBody
       /\ rate_phase' = IF dpc' = "stopped" /\ rate_phase # "none"
                        THEN "refilled" ELSE rate_phase
       /\ acct' = [acct EXCEPT !.unsettled = IF RefillSwaps(High) THEN {} ELSE @]
       /\ UNCHANGED returned
    \/ /\ Tick
       /\ rate_phase' = "none"
       /\ UNCHANGED <<returned, acct>>

SpecTwice == TwiceInit /\ [][TwiceNext]_vars

\* ------------------------------------------------------- the daemon handle
\* The limiter of the throughput tests with its daemon running: one thread
\* changes the rate, the handle is dropped at any moment.
DropInit == ProgConfigured(FALSE, FlowRate, CompactionAt(High), "held") /\ ObsNew

DropNext ==
    \/ (\E r \in DonateRates : SetRate("s1", r)) /\ UNCHANGED obs_vars
    \/ DaemonDrop /\ UNCHANGED obs_vars
    \/ DaemonLoop /\ UNCHANGED obs_vars
    \/ RefillBegin /\ UNCHANGED obs_vars
    \/ RefillBody /\ UNCHANGED obs_vars
    \/ Tick /\ UNCHANGED obs_vars

\* The daemon thread is scheduled and time passes.
SpecDrop ==
    /\ DropInit
    /\ [][DropNext]_vars
    /\ WF_vars(DaemonLoop /\ UNCHANGED obs_vars)
    /\ WF_vars(RefillBegin /\ UNCHANGED obs_vars)
    /\ WF_vars(RefillBody /\ UNCHANGED obs_vars)
    /\ WF_vars(Tick /\ UNCHANGED obs_vars)

\* ------------------------------------------------------------ the registry
\* Threads set and get the process-wide slot in any order while the worker's
\* interval task refills the limiter it finds there.
MaxRegistryRefills == 2

RegistryNext ==
    \/ Share /\ UNCHANGED obs_vars
    \/ (\E r \in Rates : SetRate("s1", r)) /\ UNCHANGED obs_vars
    \/ Toggle("s1") /\ UNCHANGED obs_vars
    \/ (\E l \in Handles : SetIoRateLimiter(l)) /\ UNCHANGED obs_vars
    \/ (\E c \in Clients : GetIoRateLimiter(c)) /\ UNCHANGED obs_vars
    \/ (Epoch < MaxRegistryRefills /\ RefillCall) /\ UNCHANGED obs_vars
    \/ RefillBegin /\ UNCHANGED obs_vars
    \/ RefillBody /\ UNCHANGED obs_vars
    \/ Tick /\ UNCHANGED obs_vars

SpecRegistry == Init /\ [][RegistryNext]_vars

\* ------------------------------------------------------------ the estimator
\* maybe_update_estimation of High's estimator is given any sequence of
\* samples; the samples are kept window by window next to it.
EstSamples == 0..2

EstNext ==
    \E v \in EstSamples :
        LET upd == maybe_update_estimation(estimated_ios_through[High], v)
            since == IF acct.emitted # <<>> THEN {} ELSE acct.means
            win == Append(acct.window, v)
            sum[i \in 0..Len(win)] == IF i = 0 THEN 0 ELSE sum[i - 1] + win[i]
            full == Len(win) = ShortWindow
        IN  /\ estimated_ios_through' = [estimated_ios_through EXCEPT ![High] = upd.est]
            /\ acct' = [acct EXCEPT
                          !.window = IF full THEN <<>> ELSE win,
                          !.means = IF full THEN since \cup {sum[Len(win)] \div ShortWindow}
                                    ELSE since,
                          !.emitted = IF upd.some THEN <<upd.value>> ELSE <<>>]
            /\ UNCHANGED <<ios_through, ios_per_epoch, next_refill_time, pending_ios, mutex,
                           facade_vars, writer_vars, setter_vars, driver_vars, registry_vars,
                           metrics_vars,
                           rate_phase, returned>>

SpecEst == Init /\ [][EstNext]_vars

\* --------------------------------------------------------- the metrics task
MaxSnoop == 2       \* cap on the bytes iosnoop counts of one type and operation

\* MetricsTask::new(fetcher): a ByRateLimiter fetcher holds the statistics
\* the limiter hands out.
MetricsTask_new(kind) ==
    /\ fetcher = "none"
    /\ kind = "ByRateLimiter" => stats_enabled
    /\ fetcher' = kind
    /\ last_fetch' = [t \in IOType |-> IOBytesDefault]
    /\ UNCHANGED <<limiter_vars, facade_vars, writer_vars, setter_vars, driver_vars,
                   registry_vars, IO_BYTES_VEC, flushing, snooped, resetting>>

\* iosnoop counts the bytes of an I/O of io_type that some thread has done.
Snoop(io_type, io_op, bytes) ==
    /\ StatsFetch([read_bytes |-> [t \in IOType |-> snooped[t].read],
                   write_bytes |-> [t \in IOType |-> snooped[t].write]],
                  io_type, io_op) + bytes <= MaxSnoop
    /\ snooped' = [snooped EXCEPT
                      ![io_type] = IF io_op = "Read"
                                   THEN [@ EXCEPT !.read = @ + bytes]
                                   ELSE [@ EXCEPT !.write = @ + bytes]]
    /\ UNCHANGED <<limiter_vars, facade_vars, writer_vars, setter_vars, driver_vars,
                   registry_vars, last_fetch, IO_BYTES_VEC, flushing, fetcher, resetting>>

\* iosnoop::fetch_io_bytes: the bytes counted of io_type so far.
fetch_io_bytes(io_type) == snooped[io_type]

\* BytesFetcher::fetch. Over the limiter's statistics the read counter was
\* loaded before, as loaded[1], and the write counter is loaded now; the
\* snooping fetcher takes what iosnoop gives and reads no statistics.
BytesFetcher_fetch(io_type, loaded) ==
    IF fetcher = "ByRateLimiter"
    THEN [read |-> loaded[1],
          write |-> StatsFetch(stats, io_type, "Write")]
    ELSE fetch_io_bytes(io_type)

\* Mutant: the snapshot is not replaced.
flush_io_bytes_KeepsSnapshot(io_type, loaded) ==
    LET bytes == BytesFetcher_fetch(io_type, loaded)
        delta_bytes == [read |-> bytes.read - last_fetch[io_type].read,
                        write |-> bytes.write - last_fetch[io_type].write]
    IN  /\ last_fetch' = last_fetch
        /\ IO_BYTES_VEC' = [IO_BYTES_VEC EXCEPT
                              ![io_type] = [read |-> @.read + delta_bytes.read,
                                            write |-> @.write + delta_bytes.write]]

\* flush_io_bytes: fetch, delta against the snapshot, new snapshot, export.
flush_io_bytes(io_type, loaded) ==
    LET bytes == BytesFetcher_fetch(io_type, loaded)
        delta_bytes == [read |-> bytes.read - last_fetch[io_type].read,
                        write |-> bytes.write - last_fetch[io_type].write]
    IN  /\ last_fetch' = [last_fetch EXCEPT ![io_type] = bytes]
        /\ IO_BYTES_VEC' = [IO_BYTES_VEC EXCEPT
                              ![io_type] = [read |-> @.read + delta_bytes.read,
                                            write |-> @.write + delta_bytes.write]]

\* MetricsTask::on_tick: the flushes follow one another in the order of the
\* IOTypes. Over the limiter's statistics each one is the load of the read
\* counter and then the rest, and requests are recorded between the steps;
\* with the snooping fetcher each one is a single step.
on_tick ==
    /\ fetcher # "none"
    /\ IF fetcher = "ByRateLimiter" /\ flushing.read = <<>>
       THEN /\ flushing' = [flushing EXCEPT
                               !.read = <<StatsFetch(stats, flushing.io_type, "Read")>>]
            /\ UNCHANGED <<last_fetch, IO_BYTES_VEC>>
       ELSE /\ flush_io_bytes(flushing.io_type, flushing.read)
            /\ flushing' = Flushing(IF flushing.io_type = Export
                                    THEN Other ELSE flushing.io_type + 1)
    /\ UNCHANGED <<limiter_vars, facade_vars, writer_vars, setter_vars, driver_vars,
                   registry_vars, fetcher, snooped, resetting>>

\* A limiter with statistics and no rate limit: a metrics task is built with
\* either fetcher, and the requests of one thread are recorded, and the
\* Compaction I/O it does is counted by iosnoop, while the task ticks.
MetricsNext ==
    \/ Share /\ UNCHANGED obs_vars
    \/ (\E kind \in {"ByRateLimiter", "ByIOSnooper"} : MetricsTask_new(kind))
       /\ UNCHANGED obs_vars
    \/ (\E t \in StatsTypes, o \in IOOp, b \in StatsBytes : Call("w1", t, o, b))
       /\ UNCHANGED obs_vars
    \/ Record("w1") /\ UNCHANGED obs_vars
    \/ /\ fetcher = "ByIOSnooper"
       /\ \E o \in IOOp : Snoop(Compaction, o, 1)
       /\ UNCHANGED obs_vars
    \/ on_tick /\ UNCHANGED obs_vars

MetricsInit == ProgNew(TRUE) /\ ObsNew

SpecMetrics == MetricsInit /\ [][MetricsNext]_vars

\* ------------------------------------------------------------- SpecStale
\* The hybrid flow around the refill that updates the budgets: one thread
\* writes ForegroundWrite at High, at most SplitLoad bytes per epoch, and from
\* the last epoch before that refill on a second thread writes Compaction at
\* Medium, StaleBytes bytes a call, as fast as it can.
StaleBytes == 3
MaxStaleRefills == 6

StaleNext ==
    \/ /\ acct.asked + 1 <= SplitLoad
       /\ Call("w1", ForegroundWrite, "Write", 1)
       /\ acct' = [acct EXCEPT !.asked = @ + 1]
       /\ UNCHANGED <<rate_phase, returned>>
    \/ /\ Epoch + 1 >= ShortWindow
       /\ Call("w2", Compaction, "Write", StaleBytes)
       /\ UNCHANGED obs_vars
    \/ /\ \E w \in Writers : Load(w) \/ Now(w) \/ Wake(w) \/ Record(w)
       /\ UNCHANGED obs_vars
    \/ \E w \in Writers :
          /\ Add(w) \/ Lock(w)
          /\ acct' = [acct EXCEPT !.got[req[w].priority] = @ + Passed(w),
                                  !.due[req[w].priority] = @ + Booked(w)]
          /\ UNCHANGED <<rate_phase, returned>>
    \/ /\ DaemonLoop
       /\ UNCHANGED obs_vars
    \/ /\ Epoch < MaxStaleRefills
       /\ RefillBegin
       /\ UNCHANGED obs_vars
    \/ /\ RefillBody
       /\ acct' = SplitShift
       /\ UNCHANGED <<rate_phase, returned>>
    \/ /\ Tick
       /\ UNCHANGED obs_vars

SpecStale == SplitInit /\ [][StaleNext]_vars

\* ================================================================= claims

\* C1: a request (sync or async, any type, op and bytes) whose attempt reads
\* an epoch budget of 0 for its priority returns exactly the bytes it asked
\* for at once: it goes straight to its return without sleeping, and it
\* leaves ios_through, pending_ios and next_refill_time as they were.
C1_DisabledPassthrough ==
    [][\A w \in Writers :
        (/\ pc[w] \in {"idle", "load"}
         /\ pc'[w] # pc[w]
         /\ ios_per_epoch[req'[w].priority] = 0)
        => /\ pc'[w] = "record"
           /\ req'[w].ret = req'[w].bytes
           /\ ios_through' = ios_through
           /\ pending_ios' = pending_ios
           /\ next_refill_time' = next_refill_time]_vars

\* A write of 3 bytes is about to return 3 from a limiter that was used
\* while enabled and is disabled now.
C1_Witness ==
    /\ pc["w1"] = "record"
    /\ req["w1"].io_op = "Write"
    /\ req["w1"].bytes = 3
    /\ req["w1"].ret = 3
    /\ ios_per_epoch[req["w1"].priority] = 0
    /\ ios_through[req["w1"].priority] > 0

\* C2: a write of bytes > 0 that returns from an attempt that read a positive
\* epoch budget is granted g = min(bytes, that budget), so 0 < g <= bytes and
\* g is at most the budget.
C2_GrantClamped ==
    \A w \in Writers :
        (/\ pc[w] = "record"
         /\ req[w].io_op = "Write"
         /\ req[w].bytes > 0
         /\ req[w].cached > 0)
        => /\ req[w].ret = (IF req[w].bytes < req[w].cached
                            THEN req[w].bytes ELSE req[w].cached)
           /\ 0 < req[w].ret
           /\ req[w].ret <= req[w].bytes
           /\ req[w].ret <= req[w].cached

\* A write of 3 bytes returns 2 after waiting, under an epoch budget of 2.
C2_Witness ==
    /\ pc["w1"] = "record"
    /\ req["w1"].io_op = "Write"
    /\ req["w1"].bytes = 3
    /\ req["w1"].cached = 2
    /\ req["w1"].pending > 0
    /\ req["w1"].ret = 2

\* C3 (as stated): under a fixed positive rate with one refill driver and two
\* concurrent writers at one priority, the bytes the requests return and
\* record in one refill epoch never exceed 2 epoch budgets, and those of two
\* consecutive epochs never exceed 3 epoch budgets (K = 1, 2).
C3_RecordedBound ==
    /\ acct.rec[1] <= 2 * FlowBudget
    /\ acct.rec[1] + acct.rec[2] <= 3 * FlowBudget

\* C3 (amended): the bytes whose grant the limiter decides in one refill epoch
\* (charged on the fast path, or booked in pending_ios within the budget)
\* never exceed 2 epoch budgets, and those of two consecutive epochs never
\* exceed 3 epoch budgets; a requester may return and record a grant any
\* number of epochs after it was decided.
C3_DecidedBound ==
    /\ acct.dec[1] <= 2 * FlowBudget
    /\ acct.dec[1] + acct.dec[2] <= 3 * FlowBudget

\* After a refill, an epoch in which 2 budgets were decided follows one in
\* which 1 budget was.
C3_Witness ==
    /\ Epoch >= 1
    /\ acct.dec[1] = 2 * FlowBudget
    /\ acct.dec[2] = FlowBudget

\* C4: under a fixed positive rate and a refill driver that keeps firing,
\* every request of the writer, at priority High, Medium or Low, eventually
\* returns.
C4_EventuallyReturns == (pc["w1"] # "idle") ~> (pc["w1"] = "idle")

\* C5 (as stated): under a fixed positive rate, with High-priority writers
\* that always have a request outstanding and never stall, the bytes returned
\* in a full epoch after the first are at least the epoch budget minus one
\* request's size.
C5_EpochUsedUp ==
    (Epoch >= 3 /\ acct.sat[2]) => \E b \in SatBytes : acct.rec[2] >= FlowBudget - b

\* C5 (amended): under a fixed positive rate, with High-priority writers
\* that always have a request outstanding and never stall, the bytes granted
\* out of every full epoch after the first, those let through on the fast
\* path in it and those booked for it in the epoch before, are more than the
\* epoch budget minus one request's size, the largest.
C5_BudgetGranted ==
    [][(/\ RefillSwaps(High)
        /\ dpc' # dpc
        /\ acct.sat[1]
        /\ AllOutstanding)
       => \E b \in SatBytes : acct.got[High] > FlowBudget - b]_vars

\* A full epoch of saturating writers, one with a request of each size, is
\* about to end with no more granted out of it than the bound allows.
C5_Witness ==
    /\ RefillSwaps(High)
    /\ Epoch >= 2
    /\ acct.sat[1]
    /\ AllOutstanding
    /\ {req[w].bytes : w \in Writers} = SatBytes
    /\ \A b \in SatBytes : acct.got[High] <= FlowBudget - b + 1


\* C7: under a light flow (in every epoch the bytes asked at the priority
\* are at most its epoch budget, and a refill ends every epoch), every
\* request at that priority returns the bytes it asked for on the fast path:
\* it never books pending bytes, never sleeps and never goes round the loop.
C7_LightFlow ==
    /\ pending_ios[FlowPriority] = 0
    /\ \A w \in Writers :
          /\ pc[w] \notin {"lock", "sleep", "load"}
          /\ pc[w] = "record" => req[w].ret = req[w].bytes

\* C8: with statistics enabled, after any interleaving of requests,
\* fetch(type, op) is the sum of the values returned by the completed
\* requests of that (type, op) since the last reset (the granted bytes, not
\* the requested ones), for every pair: a request changes no other counter.
\* reset stores 0 into the counters one by one, and a counter's sum starts
\* again at the store into it.
C8_StatsAreGrants ==
    \A t \in IOType, o \in IOOp : StatsFetch(stats, t, o) = returned[t][o]

\* A 2-byte Compaction read was recorded as 2 bytes and nothing else was,
\* while a 2-byte Export request that was granted 1 byte after booking is
\* about to record.
C8_Witness ==
    /\ StatsFetch(stats, Compaction, "Write") = 0
    /\ StatsFetch(stats, Compaction, "Read") = 2
    /\ StatsFetch(stats, Export, "Write") = 0
    /\ StatsFetch(stats, Export, "Read") = 0
    /\ pc["w1"] = "idle"
    /\ pc["w2"] = "record"
    /\ req["w2"].io_type = Export
    /\ req["w2"].bytes = 2
    /\ req["w2"].ret = 1
    /\ req["w2"].pending > 0

\* C6 (as stated): in the hybrid flow with epoch budget B =
\* ios_per_epoch[High], a High load of SplitLoad < B bytes in every epoch and
\* a Medium load that uses up Medium's budget in every epoch, in the epochs
\* that follow the one the budget update began, the High writer is never
\* throttled, Medium is granted at most B - SplitLoad bytes out of an epoch,
\* and High, Medium and Low together are granted at most B bytes out of an
\* epoch.
C6_PrioritySplit ==
    Settled =>
        /\ pc["w1"] \notin {"lock", "sleep"}
        /\ acct.got[Medium] <= ios_per_epoch[High] - SplitLoad
        /\ acct.got[High] + acct.got[Medium] + acct.got[Low] <= ios_per_epoch[High]

\* C6 (amended): under the same load and in the same epochs the High writer
\* is never throttled, Medium's budget is B - SplitLoad and Medium is granted
\* at most that out of an epoch, Low's budget is the floor of 1 byte and Low
\* is granted at most that out of an epoch, so that High, Medium and Low
\* together are granted at most B plus Low's floor out of an epoch.
C6_SplitBudgets ==
    Settled =>
        /\ pc["w1"] \notin {"lock", "sleep"}
        /\ ios_per_epoch[Medium] = ios_per_epoch[High] - SplitLoad
        /\ acct.got[Medium] <= ios_per_epoch[Medium]
        /\ ios_per_epoch[Low] = 1
        /\ acct.got[Low] <= ios_per_epoch[Low]
        /\ acct.got[High] + acct.got[Medium] + acct.got[Low]
               <= ios_per_epoch[High] + ios_per_epoch[Low]

\* A settled epoch out of which High got its load, Medium its whole budget
\* and Low its floor: one byte more than B.
C6_Witness ==
    /\ Settled
    /\ acct.got[High] = SplitLoad
    /\ acct.got[Medium] = ios_per_epoch[High] - SplitLoad
    /\ acct.got[Low] = 1
    /\ \A w \in Writers : pc[w] = "idle"

\* C9: once set_io_rate_limit(r), r > 0, has returned and a refill that began
\* after it has finished, no priority's epoch budget exceeds High's, which is
\* r x refill_period.
C9_RateEffective ==
    (/\ rate_phase = "refilled"
     /\ spc["s1"] = "idle"
     /\ ios_per_epoch[High] > 0)
    => /\ ios_per_epoch[Medium] <= ios_per_epoch[High]
       /\ ios_per_epoch[Low] <= ios_per_epoch[High]

\* C10: set_io_rate_limit(r) stores floor(r x refill_period) into High's
\* budget; when the old or the new budget is 0 it goes on to store the same
\* value into Medium's and then into Low's budget, holding the mutex from
\* the first of the two stores to the second, and otherwise it returns with
\* Medium's and Low's budgets untouched.
C10_SetRate ==
    [][\A s \in Setters :
        /\ \A r \in Rates :
            SetRate(s, r) =>
                LET now == (r * DEFAULT_REFILL_PERIOD) \div 1000
                    before == ios_per_epoch[High]
                IN  /\ ios_per_epoch'[High] = now
                    /\ ios_per_epoch'[Medium] = ios_per_epoch[Medium]
                    /\ ios_per_epoch'[Low] = ios_per_epoch[Low]
                    /\ (before = 0 \/ now = 0) <=> (spc'[s] = "toggle")
                    /\ (spc'[s] = "toggle") => (snow'[s] = now)
        /\ Toggle(s) =>
                /\ ios_per_epoch'[High] = ios_per_epoch[High]
                /\ ios_per_epoch'[Medium] = snow[s]
                /\ IF spc'[s] = "idle"
                   THEN ios_per_epoch'[Low] = snow[s] /\ mutex = s
                   ELSE ios_per_epoch'[Low] = ios_per_epoch[Low] /\ mutex' = s]_vars

\* The limiter was switched on at budget 2 and both lower budgets follow.
C10_Witness ==
    /\ spc["s1"] = "idle"
    /\ ios_per_epoch = [p \in IOPriority |-> 2]
    /\ estimated_ios_through[High].count > 0
    /\ rate_phase = "set"

\* C11: whenever no set_io_rate_limit call is in progress and High's epoch
\* budget is 0, the epoch budgets of Medium and Low are 0 too.
C11_DisabledForAll ==
    ((\A s \in Setters : spc[s] = "idle") /\ ios_per_epoch[High] = 0) =>
        (ios_per_epoch[Medium] = 0 /\ ios_per_epoch[Low] = 0)

\* C12: a call set_io_rate_limit(r) leaves High's epoch budget positive if
\* r > 0, and 0 only if r = 0.
C12_PositiveRateActivates ==
    [][\A s \in Setters, r \in Rates :
          SetRate(s, r) => (ios_per_epoch'[High] > 0 <=> r > 0)]_vars

\* C13: a request with op = Read, whatever its type, does not enter the
\* priority limiter: from its call on it is at the point where it records
\* and returns the bytes it asked for, having left ios_through, pending_ios
\* and the budgets alone.
C13_ReadsBypass ==
    \A w \in Writers :
        (pc[w] # "idle" /\ req[w].io_op = "Read") =>
            (pc[w] = "record" /\ req[w].ret = req[w].bytes)

\* C14: with the limiter enabled and the daemon refilling for ever, a
\* Low-priority writer is granted bytes again and again as long as it keeps
\* requesting: whenever it has a request outstanding, a later state has it
\* granted a positive number of bytes.
C14_LowKeepsProgressing ==
    (pc["w1"] # "idle") ~> (pc["w1"] = "record" /\ req["w1"].ret > 0)

\* C15: while nothing is requested at High, a refill that updates the
\* budgets stores High's epoch budget, as it read it, into Medium's, and if
\* nothing was requested at Medium either it leaves Low's epoch budget equal
\* to Medium's.
C15_ResidualDonation ==
    [][(dpc = "store" /\ dpc' # dpc) =>
          IF refilling.pi = High
          THEN ios_per_epoch'[Medium] = refilling.limit
          ELSE acct.steady => ios_per_epoch'[Low] = ios_per_epoch'[Medium]]_vars

\* A budget update has handed a lowered High budget down to Medium and Low.
C15_Witness ==
    /\ Epoch = ShortWindow
    /\ acct.steady
    /\ ios_per_epoch = [p \in IOPriority |-> 1]

\* C16 (as stated): every 5th refill of an enabled limiter recomputes the
\* budgets of Medium and Low: the store into Medium's budget follows the
\* swap of High, and the store into Low's follows the swap of Medium.
C16_EveryFifthRefill ==
    [][\A p \in {High, Medium} :
          (/\ RefillSwaps(p) /\ dpc' # dpc
           /\ estimated_ios_through'[p].count % ShortWindow = 0) => dpc' = "store"]_vars

\* C16 (amended): a refill recomputes the budgets of Medium and Low if it is
\* a 5th refill among the first 200 or a 200th refill, and with nothing
\* requested it then leaves them equal to High's budget; every other refill,
\* the 5th refills after the 200th among them, leaves them as they were.
C16_WarmUpCadence ==
    [][/\ \A p \in {High, Medium} :
            (RefillSwaps(p) /\ dpc' # dpc) =>
                LET count == estimated_ios_through'[p].count
                IN  (dpc' = "store") <=>
                        \/ count % LongWindow = 0
                        \/ (count < LongWindow /\ count % ShortWindow = 0)
       /\ IF dpc = "store" /\ dpc' # dpc
          THEN ios_per_epoch'[refilling.pi - 1] = refilling.limit
          ELSE /\ ios_per_epoch'[Medium] = ios_per_epoch[Medium]
               /\ ios_per_epoch'[Low] = ios_per_epoch[Low]]_vars

\* The 205th refill is done and Medium's budget is still not High's.
C16_Witness ==
    /\ Epoch = LongWindow + ShortWindow
    /\ dpc = "sleep"
    /\ ios_per_epoch[Medium] # ios_per_epoch[High]

\* C17: with no refill driver running, a request that went over the epoch
\* budget (it is about to enter the critical section of request_impl)
\* eventually gets its grant and goes on to return.
C17_OverBudgetReturns == (pc["w1"] = "lock") ~> (pc["w1"] = "record")

\* C18: a refill invoked right after another one, at the same instant and
\* with no step of a request in between, leaves ios_through, pending_ios and
\* the epoch budgets as the first refill left them: none of its steps
\* changes them.
C18_RefillIdempotent ==
    [][(rate_phase = "again" /\ rate_phase' # "none") =>
          /\ ios_through' = ios_through
          /\ pending_ios' = pending_ios
          /\ ios_per_epoch' = ios_per_epoch]_vars


\* C20: once the IORateLimiterDaemon handle is dropped, the refill thread
\* eventually leaves its loop, and from then on it stays out of it: it
\* performs no refill any more.
C20_DriverTerminates == (daemon = "dropped") ~> [](dpc = "exited")


\* C21: a new limiter maps every IOType to High; set_io_priority(t, p) sets
\* the entry of t to p and leaves every other entry alone; a request of type
\* t changes ios_through and pending_ios of the priority the map gives t,
\* and of no other priority.
C21_PriorityMap ==
    /\ \A t \in IOType : priority_map[t] = High
    /\ [][/\ \A t \in IOType, p \in IOPriority :
                SetIoPriority(t, p) =>
                    /\ priority_map'[t] = p
                    /\ \A u \in IOType \ {t} : priority_map'[u] = priority_map[u]
          /\ \A w \in Writers :
                (pc[w] \in {"add", "lock"} /\ pc'[w] # pc[w]) =>
                    \A q \in IOPriority \ {priority_map[req[w].io_type]} :
                        /\ ios_through'[q] = ios_through[q]
                        /\ pending_ios'[q] = pending_ios[q]]_vars

\* Compaction was moved to Low and a Compaction write went over Low's budget
\* and booked the next epoch: Low's counters, and only they, are charged.
C21_Witness ==
    /\ priority_map[Compaction] = Low
    /\ ios_through[Low] > 0 /\ pending_ios[Low] > 0
    /\ ios_through[High] = 0 /\ ios_through[Medium] = 0


\* C22: the slot is empty before any set; set_io_rate_limiter(l) leaves l in
\* the slot, nothing else changes the slot, and get_io_rate_limiter returns
\* what the slot holds, which is the handle of the most recent set, and
\* leaves the slot as it was.
C22_Registry ==
    /\ IO_RATE_LIMITER = NoLimiter
    /\ [][/\ \A l \in Handles :
                SetIoRateLimiter(l) => IO_RATE_LIMITER' = l /\ fetched' = fetched
          /\ \A c \in Clients :
                GetIoRateLimiter(c) =>
                    /\ fetched'[c] = IO_RATE_LIMITER
                    /\ IO_RATE_LIMITER' = IO_RATE_LIMITER
          /\ IO_RATE_LIMITER' # IO_RATE_LIMITER =>
                \E l \in Handles : SetIoRateLimiter(l)]_vars

\* One thread got the limiter, another got a limiter set later, and the slot
\* was emptied after that.
C22_Witness ==
    /\ fetched["c1"] = ThisLimiter
    /\ fetched["c2"] = OtherLimiter
    /\ IO_RATE_LIMITER = NoLimiter


\* C23: a refill moves at most the limit of each priority out of its pending
\* bytes into ios_through and keeps the remainder pending: right after the
\* refill's swap ios_through[p] is within ios_per_epoch[p], and what was
\* pending is either let through or still pending.
C23_PendingCapped ==
    [][\A p \in IOPriority :
          (RefillSwaps(p) /\ dpc' # dpc) =>
              /\ ios_through'[p] <= ios_per_epoch'[p]
              /\ ios_through'[p] + pending_ios'[p] = pending_ios[p]]_vars


\* C24: a refill starts a new epoch for Low as it does for High and Medium:
\* ios_through[Low] becomes the part of Low's pending bytes that the refill
\* satisfies, and that part is taken out of pending_ios[Low].
C24_LowEpochReset ==
    [][(mutex = "daemon" /\ mutex' = "free") =>
          /\ ios_through'[Low] <= pending_ios[Low]
          /\ pending_ios'[Low] = pending_ios[Low] - ios_through'[Low]]_vars


\* C25: on a budget-updating refill of an enabled limiter the new Medium
\* budget is max(1, High budget - estimated High throughput) and the new Low
\* budget is max(1, new Medium budget - estimated Medium throughput): both
\* are at least 1 and neither exceeds the budget of the priority above it.
\* The budget of the priority above is the one the refill has loaded: it is
\* Medium's budget of the moment, and High's unless set_io_rate_limit has
\* swapped it since.
C25_BudgetCascade ==
    [][\A p \in {High, Medium} :
          /\ (RefillSwaps(p) /\ dpc' = "store") =>
                refilling'.emitted
                  = maybe_update_estimation(estimated_ios_through[p],
                                            Min(ios_through[p], refilling.limit)).value
          /\ (dpc = "store" /\ refilling.pi = p /\ dpc' # dpc) =>
                /\ ios_per_epoch'[p - 1] = Max(1, refilling.limit - refilling.emitted)
                /\ 1 <= ios_per_epoch'[p - 1]
                /\ ios_per_epoch'[p - 1] <= refilling.limit
                /\ p = Medium => refilling.limit = ios_per_epoch'[p]]_vars

\* The first budget update of the hybrid flow has run: High keeps 3 bytes an
\* epoch, Medium is left 2 and Low 1.
C25_Witness ==
    /\ Epoch = ShortWindow
    /\ dpc = "sleep"
    /\ ios_per_epoch[High] = 3 /\ ios_per_epoch[Medium] = 2 /\ ios_per_epoch[Low] = 1


\* C26: every call of refill sets next_refill_time to now + the refill
\* period, also when the High budget is 0; a refill of a disabled limiter
\* changes nothing else.
C26_RefillReschedules ==
    [][(dpc \in {"lock", "wait"} /\ dpc' \in {"limit", "sleep"}) =>
          /\ next_refill_time' = DEFAULT_REFILL_PERIOD
          /\ ios_per_epoch[High] = 0 =>
                UNCHANGED <<ios_through, ios_per_epoch, pending_ios,
                            estimated_ios_through>>]_vars


\* C27: a request does not loop: once it has added its amount to ios_through
\* it never comes back to the load of the budget and the add, it books
\* pending bytes at most once, and after its sleep it returns its amount.
C27_NoLoop ==
    [][\A w \in Writers :
          /\ pc[w] \in {"lock", "sleep"} => pc'[w] \in {"lock", "sleep", "record"}
          /\ (pc[w] = "sleep" /\ pc'[w] # "sleep") => req'[w].ret = req[w].amount]_vars


\* C30: when an over-budget request returns its grant, a refill has taken
\* its bytes out of pending_ios and put them into ios_through: no request
\* that booked returns while its booking is still waiting for its refill.
C30_ReturnsAfterRefill ==
    [][\A w \in Writers :
          (pc[w] \in {"lock", "sleep"} /\ pc'[w] = "record") =>
              w \notin acct'.unsettled]_vars


\* C28: an over-budget request sleeps for next_refill_time - now plus
\* floor(pending / cached budget) whole refill periods, pending being what it
\* read in pending_ios right after adding its own amount.
C28_WaitWholeEpochs ==
    [][\A w \in Writers :
          (pc[w] = "lock" /\ pc'[w] = "sleep") =>
              req'[w].wake = req[w].until
                             + (req'[w].pending \div req'[w].cached) * DEFAULT_REFILL_PERIOD]_vars

\* C29: of two requests of one priority that booked in the same epoch and
\* sleep, the one that booked later, whose snapshot of pending_ios is the
\* larger, is released strictly later than the other.
C29_WaitersInOrder ==
    \A w, v \in Writers :
        (/\ pc[w] = "sleep" /\ req[w].wake > 0
         /\ pc[v] = "sleep" /\ req[v].wake > 0
         /\ req[v].priority = req[w].priority
         /\ req[v].pending > req[w].pending) =>
            req[v].wake > req[w].wake


\* C31: the estimator emits a value exactly at the sample counts that are
\* multiples of 5 below 200 and multiples of 200 from 200 on; the value is
\* the largest floor(window sum / 5) of the 5-sample windows completed since
\* the emission before, and the maximum and the short sum are 0 after it.
C31_Estimator ==
    LET e == estimated_ios_through[High]
    IN  /\ acct.emitted # <<>> <=>
              \/ e.count > 0 /\ e.count < LongWindow /\ e.count % ShortWindow = 0
              \/ e.count >= LongWindow /\ e.count % LongWindow = 0
        /\ acct.emitted # <<>> =>
              /\ acct.means # {}
              /\ \A m \in acct.means : m <= acct.emitted[1]
              /\ acct.emitted[1] \in acct.means
              /\ e.long_max = 0
              /\ e.short_sum = 0

\* An emission that closes a long window (a count of 400, kept as 200) over
\* windows whose means differ: the largest of them is emitted.
C31_Witness ==
    /\ estimated_ios_through[High].count = LongWindow
    /\ acct.emitted = <<1>>
    /\ acct.means = {0, 1}


\* C32: set_io_rate_limit changes epoch budgets only: neither of its two
\* steps changes ios_through, pending_ios, next_refill_time or an estimator,
\* and a request that sleeps keeps the wait it computed.
C32_SetRateFrame ==
    [][\A s \in Setters :
          ((\E r \in Rates : SetRate(s, r)) \/ Toggle(s)) =>
              /\ UNCHANGED <<ios_through, pending_ios, next_refill_time,
                             estimated_ios_through>>
              /\ \A w \in Writers : pc'[w] = pc[w] /\ req'[w] = req[w]]_vars

\* A High request sleeps out its wait under a budget that set_io_rate_limit
\* has changed since the request read it.
C32_Witness ==
    /\ pc["w1"] = "sleep" /\ req["w1"].wake > 0
    /\ req["w1"].priority = High
    /\ ios_per_epoch[High] # req["w1"].cached


\* C33: no request holds the protected mutex while it sleeps, and refill's
\* timed acquisition of the mutex (try_lock_for one refill period) always
\* succeeds: while refill waits for a mutex that is held, its wait has not
\* run out, and refill never panics.
C33_NoSleepUnderLock ==
    /\ \A w \in Writers : mutex # w
    /\ (dpc = "wait" /\ mutex # "free") => dtimer > 0
    /\ dpc # "panicked"

\* A request sleeps out its wait while refill waits for the mutex, which
\* set_ios_per_sec holds.
C33_Witness ==
    /\ pc["w1"] = "sleep" /\ req["w1"].wake > 0
    /\ dpc = "wait"
    /\ mutex = "s1"


\* C34: over counters that only grow, the limiter's statistics or, with the
\* snooping fetcher, iosnoop's counts, for every IOType and operation the
\* deltas exported to io_bytes add up to the value fetched at the last tick,
\* which is what last_fetch holds; the flush of one type stores what it
\* fetched in that type's snapshot and changes no other type's snapshot or
\* counter.
C34_MetricsDeltas ==
    /\ [](\A t \in IOType : IO_BYTES_VEC[t] = last_fetch[t])
    /\ [][flushing'.io_type # flushing.io_type =>
            /\ fetcher = "ByRateLimiter" =>
                  /\ last_fetch'[flushing.io_type].read = flushing.read[1]
                  /\ last_fetch'[flushing.io_type].write
                         = StatsFetch(stats, flushing.io_type, "Write")
            /\ fetcher = "ByIOSnooper" =>
                  last_fetch'[flushing.io_type] = snooped[flushing.io_type]
            /\ \A u \in IOType \ {flushing.io_type} :
                  /\ last_fetch'[u] = last_fetch[u]
                  /\ IO_BYTES_VEC'[u] = IO_BYTES_VEC[u]]_vars

\* A tick has exported Compaction writes, more were recorded since, and a
\* later tick has exported Export reads.
C34_Witness ==
    /\ IO_BYTES_VEC[Compaction].write = 2
    /\ StatsFetch(stats, Compaction, "Write") = 4
    /\ IO_BYTES_VEC[Export].read = 2
    /\ flushing = Flushing(Flush)
    /\ fetcher = "ByRateLimiter"


\* C35: whenever no set_io_rate_limit call is in progress and High's epoch
\* budget is positive, Medium's and Low's are positive too: no Medium or Low
\* request passes unthrottled while the limiter is enabled.
C35_EnabledForAll ==
    ((\A s \in Setters : spc[s] = "idle") /\ ios_per_epoch[High] > 0) =>
        (ios_per_epoch[Medium] > 0 /\ ios_per_epoch[Low] > 0)


\* C36 (as stated): with a fixed rate, the bytes granted through the waiting
\* path to the requests that booked pending bytes during one epoch never
\* exceed the epoch budget of their priority (compared while no refill is
\* between its store of a budget and the swap that ends the epoch).
C36_WaitingWithinBudget ==
    mutex # "daemon" => \A p \in IOPriority : acct.due[p] <= ios_per_epoch[p]

\* C36 (amended): the bytes granted through the waiting path to the requests
\* that booked pending bytes during one epoch never exceed the budget that
\* the request granted last had loaded before its charge; a refill may have
\* lowered the priority's budget since.
C36_WaitingWithinCached ==
    [][\A w \in Writers :
          (pc[w] = "lock" /\ Booked(w) > 0)
              => acct.due'[req[w].priority] <= req[w].cached]_vars

\* A Compaction request that loaded Medium's budget before the refill that
\* lowered it has booked the whole of the old budget and is granted it.
C36_Witness ==
    /\ mutex # "daemon"
    /\ pc["w2"] = "sleep"
    /\ req["w2"].cached > ios_per_epoch[Medium]
    /\ req["w2"].pending = req["w2"].cached
    /\ acct.due[Medium] = req["w2"].cached


\* C37: between two consecutive refills each outstanding request call adds
\* its amount to pending_ios at most once: a call that has added its amount,
\* and whose bytes no refill has taken out of pending_ios yet, does not add
\* to pending_ios again.
C37_BooksOncePerEpoch ==
    [][\A w \in Writers :
          (pc[w] = "lock" /\ pc'[w] # "lock" /\ w \in acct.unsettled) =>
              pending_ios' = pending_ios]_vars


\* C38: a request never books pending bytes across a refill it raced with.
\* A request that waits for the mutex went over its budget when it charged
\* ios_through, and ios_through only grows between two refills: if it is
\* within the budget again, a refill has run since the charge, and the
\* request then goes back to the start without adding to pending_ios.
C38_RetriesAfterRacedRefill ==
    [][\A w \in Writers :
          (/\ pc[w] = "lock"
           /\ pc'[w] # "lock"
           /\ ios_through[req[w].priority] <= req[w].cached)
              => (pc'[w] = "load" /\ pending_ios' = pending_ios)]_vars


\* C39: conservation of charges: the bytes that a refill carries from
\* pending_ios into ios_through of the new epoch are the bytes of the
\* requests that booked within the budget and are granted; the bytes of a
\* request that is not granted are not charged to the new epoch.
C39_CarriesGrantedOnly ==
    [][(RefillSwaps(FlowPriority) /\ dpc' # dpc) =>
          ios_through'[FlowPriority] <= acct.due[FlowPriority]]_vars

====
